---- MODULE Spec2Model ----
(***************************************************************************)
(* A model of the suroi game server core: the tick engine (game.ts), the   *)
(* player object (objects/player.ts), the melee item (inventory/           *)
(* meleeItem.ts) and the death marker (objects/deathMarker.ts).            *)
(*                                                                         *)
(* Real quantities are fixed point: health and adrenaline are held in      *)
(* thousandths (100 health = 100000), gas percentage in thousandths.       *)
(* Time is in milliseconds.  A handler (the tick callback, a timer         *)
(* callback, a socket callback) is one action: the server is single        *)
(* threaded and a callback runs to completion.                             *)
(***************************************************************************)
EXTENDS Integers, Sequences, FiniteSets, TLC

\* ------------------------------------------------------------------ bounds

NumPlayers == 2
MaxTicks == 2
MaxTickTime == 32
MaxCalls == 3
StartClock == 1000
MaxClock == 5040
MaxDraw == 7
MaxFloat == 8
MaxMoves == 10
MaxFlight == 4

\* ------------------------------------------------------- program constants

TickPeriod == 30
GasDamagePeriod == 30
MaxHealth == 100000
MaxAdrenaline == 100000
AdrenalineDrain == 15
DefaultZoom == 48
VisibilityMoveThreshold == 8
MapWidth == 720
MapHeight == 720
GasCentre == 360
GasInitialRadius == 512
ObjectIDBits == 11
BulletIDBits == 8
BulletRange == 2

\* ----------------------------------------------------------------- helpers

Max(a, b) == IF a >= b THEN a ELSE b

SeqToSet(q) == {q[k] : k \in DOMAIN q}

\* Set.add on an insertion-ordered Set: an element already present keeps its place.
SetAdd(q, x) == IF x \in SeqToSet(q) THEN q ELSE Append(q, x)

\* Set.delete on an insertion-ordered Set.
SetDelete(q, x) == SelectSeq(q, LAMBDA y : y # x)

\* --------------------------------------------------------------- the world

Players == 1..NumPlayers

\* An optional Player argument (damage()'s source): <<>> or <<i>>.
NoSource == <<>>
SourcePlayer(i) == <<i>>
IsPlayerSource(source) == Len(source) = 1

\* Object identities.  A player's death marker and the loot it drops exist at
\* most once per player, so they are named after the player.
PlayerObj(i) == <<"player", i>>
MarkerObj(i) == <<"deathMarker", i>>
LootObj(i) == <<"loot", i>>
ObstacleObj(k) == <<"obstacle", k>>

IsPlayerObj(o) == o[1] = "player"

\* The user data of the fixtures createWorldBoundary makes: one per side.
BoundaryObj(k) == <<"boundary", k>>

Boundaries == {BoundaryObj(k) : k \in 1..4}

\* The positions bodies are observed at: a slice y = 360 of the 720 x 720 map.
Positions == {<<360, 360>>, <<500, 360>>}

\* The static objects the map generator has placed, with their positions.
StaticObjects == {ObstacleObj(1)}

StaticPosition(o) == <<440, 360>>

SupportedZoomLevels == {48, 96}

\* Math.round(x / 10) * 10 for a non-negative integer coordinate.
Round10(x) == ((x + 5) \div 10) * 10

\* Map constructor: the static objects strictly inside the window of half-width
\* zoom * 1.75 and half-height zoom * 1.35 around the cell.
StaticVisibleAt(zoom, cell) ==
    {o \in StaticObjects :
        /\ 4 * StaticPosition(o)[1] > 4 * cell[1] - 7 * zoom
        /\ 4 * StaticPosition(o)[1] < 4 * cell[1] + 7 * zoom
        /\ 20 * StaticPosition(o)[2] > 20 * cell[2] - 27 * zoom
        /\ 20 * StaticPosition(o)[2] < 20 * cell[2] + 27 * zoom}

\* A Set object is named by the place of the index game.visibleObjects that
\* holds it, <<zoom, x, y>>; OwnSet names a Set object the index does not hold.
OwnSet == <<>>
IndexSet(zoom, position) == <<zoom, Round10(position[1]), Round10(position[2])>>

\* The contents of a Set object of the index: what the Map constructor stored
\* and what has been added to the object since.
IndexContents(s, set) ==
    StaticVisibleAt(set[1], <<set[2], set[3]>>)
        \cup {added[2] : added \in {a \in s.game.addedToIndex : a[1] = set}}

\* The objects read from a Set object that updateVisibleObjects starts from.
ContentsOf(s, set) == IF set = OwnSet THEN {} ELSE IndexContents(s, set)

\* Set.add called on a Set object: an object added to a set of the index is
\* in the index from then on.
AddToSet(s, set, objects) ==
    IF set = OwnSet THEN s
    ELSE [s EXCEPT !.game.addedToIndex = @ \cup {<<set, o>> : o \in objects}]

\* Game.getVisibleObjects(position, zoom): the precomputed set of the cell
\* itself, or a new empty set when the position is out of bounds.
GetVisibleObjects(position, zoom) ==
    IF \/ position[1] < 0 \/ position[1] > MapWidth
       \/ position[2] < 0 \/ position[2] > MapHeight
    THEN OwnSet
    ELSE IndexSet(zoom, position)

\* newVisibleObjects being the set it is built from, not a copy of it.
SameSetAs(set) == set

\* new Set<GameObject>(iterable): a new object holding the iterable's elements.
NewSetOf(set) == OwnSet

\* The gas stage table (data/gasStages.ts): state, duration in seconds, radii, dps
\* in thousandths of a health point.  The damage of the stages is set so that
\* one period in the gas exhausts a player.
GasStages ==
    << [state |-> "Inactive", duration |-> 0, oldRadius |-> 512, newRadius |-> 512, dps |-> 0],
       [state |-> "Waiting", duration |-> 2, oldRadius |-> 140, newRadius |-> 60, dps |-> 100000],
       [state |-> "Advancing", duration |-> 2, oldRadius |-> 140, newRadius |-> 60, dps |-> 100000],
       [state |-> "Waiting", duration |-> 2, oldRadius |-> 60, newRadius |-> 0, dps |-> 100000],
       [state |-> "Advancing", duration |-> 2, oldRadius |-> 60, newRadius |-> 0, dps |-> 100000],
       [state |-> "Waiting", duration |-> 0, oldRadius |-> 0, newRadius |-> 0, dps |-> 100000] >>

\* ------------------------------------------------------------------- state

VARIABLES
    game,       \* the Game object's fields
    players,    \* the Player objects' fields, by player
    timers,     \* the one-shot setTimeout callbacks that are pending
    clock,      \* Date.now()
    ticksLeft,  \* how many more tick callbacks the run may take
    callsLeft,  \* how many more damage() calls from outside the model the run may take
    out         \* what the handlers have emitted: packets built, the death steps taken

vars == <<game, players, timers, clock, ticksLeft, callsLeft, out>>

\* Player constructor (player.ts 50-227), before addPlayer has created the object.
NewPlayer(position) ==
    [ exists |-> TRUE, joined |-> FALSE, disconnected |-> FALSE, dead |-> FALSE,
      health |-> MaxHealth, adrenaline |-> 0,
      kills |-> 0, damageDone |-> 0, damageTaken |-> 0,
      movement |-> [up |-> FALSE, down |-> FALSE, left |-> FALSE, right |-> FALSE, moving |-> FALSE],
      isMobile |-> FALSE,
      attacking |-> FALSE, startedAttacking |-> FALSE, turning |-> FALSE,
      hitEffect |-> FALSE, invulnerable |-> TRUE, canDespawn |-> TRUE,
      movesSinceLastUpdate |-> 0,
      visibleObjects |-> {}, fullDirtyObjects |-> {}, partialDirtyObjects |-> {}, deletedObjects |-> {},
      visibleSet |-> OwnSet, nearObjects |-> OwnSet,
      zoom |-> DefaultZoom, position |-> position, velocity |-> <<0, 0>>, bodyAlive |-> TRUE,
      items |-> 0, killedBy |-> NoSource, animationSeq |-> FALSE, lastUse |-> 0,
      activeItem |-> "fists", ballistics |-> [damage |-> 0] ]

AbsentPlayer == [NewPlayer(<<0, 0>>) EXCEPT !.exists = FALSE, !.bodyAlive = FALSE]

\* A bullet that has not been fired.  A player fires at most one bullet in a
\* run (the delay between two shots of its gun outlasts the run), so a bullet is
\* named after its shooter.  travelled stands for distanceSquared, in steps of
\* which BulletRange are maxDistanceSquared; the rest records the bullet's life:
\* the damage records made for it and applied, the tick of each, the phase and
\* tick that removed it, and how often its id was given back.
NoBullet ==
    [ fired |-> FALSE, id |-> 0, damage |-> 0,
      travelled |-> 0, dead |-> FALSE, bodyAlive |-> FALSE,
      records |-> 0, recordedAt |-> 0, applied |-> 0, appliedAt |-> 0,
      removedIn |-> "none", removedAt |-> 0, gives |-> 0 ]

\* Game's field initialisers and constructor (game.ts 68-136, 138-202).
NewGame ==
    [ now |-> 0,
      started |-> FALSE, allowJoin |-> TRUE, over |-> FALSE, stopped |-> FALSE,
      updateObjects |-> FALSE, aliveCountDirty |-> FALSE,
      fullDirtyObjects |-> {}, partialDirtyObjects |-> {}, deletedObjects |-> {},
      dynamicObjects |-> {}, livingPlayers |-> <<>>, connectedPlayers |-> <<>>,
      loot |-> {}, explosions |-> {}, bullets |-> {}, newBullets |-> {},
      deletedBulletIDs |-> {}, damageRecords |-> <<>>, killFeedMessages |-> {},
      gas |-> [ stage |-> 0, state |-> "Inactive", initialDuration |-> 0, countdownStart |-> 0,
                percentage |-> [kind |-> "num", v |-> 0],
                oldPosition |-> <<GasCentre, GasCentre>>, newPosition |-> <<GasCentre, GasCentre>>,
                oldRadius |-> GasInitialRadius, newRadius |-> GasInitialRadius,
                currentPosition |-> <<GasCentre, GasCentre>>, currentRadius |-> GasInitialRadius,
                dps |-> 0, ticksSinceLastDamage |-> 0 ],
      gasDirty |-> FALSE, gasPercentageDirty |-> FALSE,
      tickTimes |-> [length |-> 0, last |-> 0],
      delay |-> TickPeriod,
      addedToIndex |-> {},
      idAllocator |-> {}, objectID |-> <<>>, gives |-> <<>>,
      bulletIDAllocator |-> {}, bullet |-> [i \in Players |-> NoBullet] ]

NoTimers ==
    [ tick |-> FALSE, endGame |-> 0, invulnerability |-> {}, advanceGas |-> 0, advanceGasDue |-> 0,
      allowJoin |-> FALSE, swing |-> {}, refire |-> {} ]

\* The state of a bit stream call: its arguments, the stream and what it gave.
NoCodec ==
    [ op |-> "none", mode |-> "none", draw |-> 0, value |-> 0, min |-> 0, max |-> 0,
      bitCount |-> 0, stream |-> [buffer |-> <<>>, index |-> 0],
      code |-> 0, result |-> [kind |-> "num", num |-> 0, den |-> 1],
      placed |-> FALSE, threw |-> FALSE,
      pair |-> "none", written |-> [kind |-> "none"], read |-> [kind |-> "none"] ]

NoPacket == [sent |-> FALSE, full |-> {}, partial |-> {}, deleted |-> {}]

\* What the second loop of a tick saw of a player: whether it recomputed the
\* visible set, and the counter and the flag it tested.
NoVisibilityPass == [ran |-> FALSE, moves |-> 0, flag |-> FALSE]

NoOutput ==
    [ handler |-> "constructor",
      lastUpdate |-> [i \in Players |-> NoPacket],
      deathLog |-> <<>>, deaths |-> [i \in Players |-> 0],
      damageCalls |-> {}, endGames |-> 0, caller |-> 0,
      faults |-> [i \in Players |-> "none"], socket |-> [i \in Players |-> {}],
      codec |-> NoCodec,
      collide |-> [this |-> <<>>, that |-> <<>>, result |-> FALSE],
      visibility |-> [i \in Players |-> NoVisibilityPass],
      gaveFree |-> {}, recordsAtStep |-> 0, newBulletIDs |-> {}, deletedBulletIDs |-> {},
      marks |-> [i \in Players |-> 0],
      lastSwing |-> [i \in Players |-> 0], swungWithinCooldown |-> {},
      firstSent |-> [i \in Players |-> <<>>] ]

\* The state a handler works on, threaded through the statements it runs.
State == [game |-> game, players |-> players, timers |-> timers, out |-> out]

\* ------------------------------------------------------ collision filters

\* The kinds of a CollisionFilter, in the order shouldCollide tests them.
FilterKinds == <<"player", "obstacle", "bullet", "loot">>

\* A CollisionFilter with the kinds of the set true.
Filter(kinds) == [kind \in SeqToSet(FilterKinds) |-> kind \in kinds]

\* The is and collidesWith fields of Player, of DeathMarker and of the user
\* data of a world boundary.
CollisionFilters(o) ==
    CASE o[1] = "player" -> [is |-> Filter({"player"}), collidesWith |-> Filter({"obstacle", "bullet"})]
      [] o[1] = "deathMarker" -> [is |-> Filter({}), collidesWith |-> Filter({})]
      [] o[1] = "boundary" ->
            [is |-> Filter({"obstacle"}), collidesWith |-> Filter({"player", "bullet", "loot"})]

\* Fixture.prototype.shouldCollide with the owners' collidesWith fields swapped:
\* this object's filter is asked instead of that object's.
ShouldCollideAskingThis(thisObject, thatObject) ==
    LET this == CollisionFilters(thisObject) IN
    IF this.is.player THEN this.collidesWith.player
    ELSE IF this.is.obstacle THEN this.collidesWith.obstacle
    ELSE IF this.is.bullet THEN this.collidesWith.bullet
    ELSE IF this.is.loot THEN this.collidesWith.loot
    ELSE FALSE

\* Fixture.prototype.shouldCollide
ShouldCollide(thisObject, thatObject) ==
    LET this == CollisionFilters(thisObject)
        that == CollisionFilters(thatObject)
    IN IF this.is.player THEN that.collidesWith.player
       ELSE IF this.is.obstacle THEN that.collidesWith.obstacle
       ELSE IF this.is.bullet THEN that.collidesWith.bullet
       ELSE IF this.is.loot THEN that.collidesWith.loot
       ELSE FALSE

\* ------------------------------------------------------- Game's operations

\* GameObject.position: a player's body position, or its death position; a death
\* marker and dropped loot lie where their player died.
ObjectPosition(s, o) ==
    IF o[1] = "obstacle" THEN StaticPosition(o) ELSE s.players[o[2]].position

DistanceSquared(a, b) == (a[1] - b[1]) * (a[1] - b[1]) + (a[2] - b[2]) * (a[2] - b[2])

IsInGasBeyondRadius(g, position) ==
    DistanceSquared(position, g.gas.currentPosition) > g.gas.currentRadius * g.gas.currentRadius

\* Game.isInGas
IsInGas(g, position) ==
    DistanceSquared(position, g.gas.currentPosition) >= g.gas.currentRadius * g.gas.currentRadius

\* Game.aliveCount
AliveCount(g) == Len(g.livingPlayers)

\* Game.removeObject: the id goes back to the allocator, visibility is recomputed.
\* IDAllocator.takeNext: the lowest free slot of the 2^bits; with none left
\* the allocation fails and the value is the capacity itself.
TakeNextOf(taken, bits) ==
    LET free == {id \in 0..Cardinality(taken) : id \notin taken}
        lowest == CHOOSE id \in free : \A other \in free : id <= other
    IN IF lowest < 2 ^ bits THEN lowest ELSE 2 ^ bits

TakeNext(taken) == TakeNextOf(taken, ObjectIDBits)

\* IDAllocator.give: the slot is free again, whoever holds it.
Give(taken, id) == taken \ {id}

\* The GameObject constructor: this.id = game.nextObjectID.
ConstructObject(s, o) ==
    LET id == TakeNext(s.game.idAllocator)
    IN [s EXCEPT !.game.idAllocator = @ \cup {id},
                 !.game.objectID = (o :> id) @@ @,
                 !.game.gives = (o :> 0) @@ @]

\* removeObject leaving updateObjects as it is.
RemoveObjectUnflagged(s, o) ==
    [s EXCEPT !.game.idAllocator = Give(@, s.game.objectID[o]),
              !.game.gives[o] = @ + 1,
              !.out.gaveFree = IF s.game.objectID[o] \in s.game.idAllocator THEN @ ELSE @ \cup {o}]

\* Game.removeObject; it is noted how often the object's id has been given
\* back, and whether the id was free already.
RemoveObject(s, o) ==
    [s EXCEPT !.game.idAllocator = Give(@, s.game.objectID[o]),
              !.game.updateObjects = TRUE,
              !.game.gives[o] = @ + 1,
              !.out.gaveFree = IF s.game.objectID[o] \in s.game.idAllocator THEN @ ELSE @ \cup {o}]

\* Game.addLoot
AddLoot(s, o) ==
    [ConstructObject(s, o) EXCEPT !.game.loot = @ \cup {o},
              !.game.dynamicObjects = @ \cup {o},
              !.game.fullDirtyObjects = @ \cup {o},
              !.game.updateObjects = TRUE]

\* ----------------------------------------------------- Player's operations

SetHealthUnclamped(health) == health

\* The health setter: values above 100 are cut to 100, the dirty flag is set.
SetHealth(health) == IF health > MaxHealth THEN MaxHealth ELSE health

\* The adrenaline setter: cut to [0, 100].
SetAdrenaline(adrenaline) ==
    IF adrenaline < 0 THEN 0 ELSE IF adrenaline > MaxAdrenaline THEN MaxAdrenaline ELSE adrenaline

\* Player.isMoving
IsMoving(me) ==
    me.movement.up \/ me.movement.down \/ me.movement.left \/ me.movement.right \/ me.movement.moving

\* disableInvulnerability without its test of the flag.
DisableInvulnerabilityUntested(s, i) ==
    [s EXCEPT !.players[i].invulnerable = FALSE,
              !.players[i].fullDirtyObjects = @ \cup {PlayerObj(i)},
              !.game.fullDirtyObjects = @ \cup {PlayerObj(i)},
              !.out.marks[i] = @ + 1]

\* Player.disableInvulnerability; out.marks counts the times it has marked the
\* player full-dirty.
DisableInvulnerability(s, i) ==
    IF s.players[i].invulnerable
    THEN [s EXCEPT !.players[i].invulnerable = FALSE,
                   !.players[i].fullDirtyObjects = @ \cup {PlayerObj(i)},
                   !.game.fullDirtyObjects = @ \cup {PlayerObj(i)},
                   !.out.marks[i] = @ + 1]
    ELSE s

\* The player's cull window: half-width zoom * 1.5, half-height zoom * 1.25, strict.
InCullWindow(me, position) ==
    /\ 2 * position[1] > 2 * me.position[1] - 3 * me.zoom
    /\ 2 * position[1] < 2 * me.position[1] + 3 * me.zoom
    /\ 4 * position[2] > 4 * me.position[2] - 5 * me.zoom
    /\ 4 * position[2] < 4 * me.position[2] + 5 * me.zoom

\* updateVisibleObjects adding this player to the other players' visible sets
\* without the full-dirty mark.
UpdateVisibleObjectsWithoutMark(s, i) ==
    LET me == s.players[i]
        old == me.visibleObjects
        nearObjects == GetVisibleObjects(me.position, DefaultZoom)
        static == ContentsOf(s, IF me.zoom \in SupportedZoomLevels
                                THEN IndexSet(me.zoom, me.position)
                                ELSE nearObjects)
        inWindow == {o \in s.game.dynamicObjects : InCullWindow(me, ObjectPosition(s, o))}
        newVisibleObjects == static \cup inWindow
        \* the other players that gain sight of this player
        gaining == {j \in Players \ {i} :
                      /\ PlayerObj(j) \in inWindow
                      /\ ~me.dead
                      /\ PlayerObj(i) \notin s.players[j].visibleObjects}
    IN [s EXCEPT !.players =
          [j \in Players |->
             IF j = i
             THEN [me EXCEPT !.movesSinceLastUpdate = 0,
                             !.fullDirtyObjects = @ \cup (newVisibleObjects \ old),
                             !.deletedObjects = @ \cup (old \ newVisibleObjects),
                             !.visibleObjects = newVisibleObjects]
             ELSE IF j \in gaining
             THEN [s.players[j] EXCEPT !.visibleObjects = @ \cup {PlayerObj(i)}]
             ELSE s.players[j]]]

\* updateVisibleObjects touching the sets of this player only.
UpdateVisibleObjectsOneSided(s, i) ==
    LET me == s.players[i]
        old == me.visibleObjects
        nearObjects == GetVisibleObjects(me.position, DefaultZoom)
        static == ContentsOf(s, IF me.zoom \in SupportedZoomLevels
                                THEN IndexSet(me.zoom, me.position)
                                ELSE nearObjects)
        inWindow == {o \in s.game.dynamicObjects : InCullWindow(me, ObjectPosition(s, o))}
        newVisibleObjects == static \cup inWindow
        \* the other players that gain sight of this player
        gaining == {}
    IN [s EXCEPT !.players =
          [j \in Players |->
             IF j = i
             THEN [me EXCEPT !.movesSinceLastUpdate = 0,
                             !.fullDirtyObjects = @ \cup (newVisibleObjects \ old),
                             !.deletedObjects = @ \cup (old \ newVisibleObjects),
                             !.visibleObjects = newVisibleObjects]
             ELSE IF j \in gaining
             THEN [s.players[j] EXCEPT !.visibleObjects = @ \cup {PlayerObj(i)},
                                       !.fullDirtyObjects = @ \cup {PlayerObj(i)}]
             ELSE s.players[j]]]

\* Player.updateVisibleObjects.  The three loops of the code add to the player's
\* sets only, and to the sets of the other players inside the window, so their
\* result does not depend on the iteration order.
UpdateVisibleObjects(s, i) ==
    LET me == s.players[i]
        old == me.visibleObjects
        nearObjects == GetVisibleObjects(me.position, DefaultZoom)
        from == IF me.zoom \in SupportedZoomLevels
                THEN IndexSet(me.zoom, me.position)
                ELSE nearObjects
        static == ContentsOf(s, from)
        newSet == NewSetOf(from)
        inWindow == {o \in s.game.dynamicObjects : InCullWindow(me, ObjectPosition(s, o))}
        newVisibleObjects == static \cup inWindow
        \* the other players that gain sight of this player
        gaining == {j \in Players \ {i} :
                      /\ PlayerObj(j) \in inWindow
                      /\ ~me.dead
                      /\ PlayerObj(i) \notin s.players[j].visibleObjects}
        \* the Set objects the loop adds to: newVisibleObjects, and the
        \* visibleObjects of the players that gain sight
        theirSets == {s.players[j].visibleSet : j \in gaining} \ {OwnSet}
        s1 == [AddToSet(s, newSet, inWindow) EXCEPT
                  !.game.addedToIndex = @ \cup {<<set, PlayerObj(i)>> : set \in theirSets}]
    IN [s1 EXCEPT !.players =
          [j \in Players |->
             IF j = i
             THEN [me EXCEPT !.movesSinceLastUpdate = 0,
                             !.nearObjects = nearObjects,
                             !.fullDirtyObjects = @ \cup (newVisibleObjects \ old),
                             !.deletedObjects = @ \cup (old \ newVisibleObjects),
                             !.visibleObjects = newVisibleObjects,
                             !.visibleSet = newSet]
             ELSE IF j \in gaining
             THEN [s.players[j] EXCEPT !.visibleObjects = @ \cup {PlayerObj(i)},
                                       !.fullDirtyObjects = @ \cup {PlayerObj(i)}]
             ELSE s.players[j]]]

Log(s, step) == [s EXCEPT !.out.deathLog = Append(@, step)]

\* damage(), death branch: the kill packet, the kill count and the kill feed.
KillerAttribution(s, i, source) ==
    IF IsPlayerSource(source)
    THEN LET k == source[1]
             s1 == [s EXCEPT !.players[i].killedBy = source]
             s2 == IF k # i THEN [s1 EXCEPT !.players[k].kills = @ + 1] ELSE s1
         IN Log([s2 EXCEPT !.game.killFeedMessages =
                     @ \cup {[type |-> "Kill", player |-> i, killedBy |-> k]}],
                "killerAttribution")
    ELSE s

\* damage(), death branch: the movement keys and the attack flag are reset.
DisableIntent(s, i) ==
    Log([s EXCEPT !.players[i].movement.up = FALSE,
                  !.players[i].movement.down = FALSE,
                  !.players[i].movement.left = FALSE,
                  !.players[i].movement.right = FALSE,
                  !.players[i].attacking = FALSE],
        "disableIntent")

\* damage(), death branch: deathPosition = position.clone().
SnapshotPosition(s, i) == Log(s, "snapshotPosition")

\* damage(), death branch: the body is destroyed, the alive count is dirty, the
\* adrenaline is zeroed, the player leaves the living players and the dynamic
\* objects and its id is released.
DestroyBody(s, i) ==
    LET s1 == Log([s EXCEPT !.players[i].bodyAlive = FALSE,
                            !.players[i].velocity = <<0, 0>>], "destroyBody")
        s2 == [s1 EXCEPT !.game.aliveCountDirty = TRUE,
                         !.players[i].adrenaline = SetAdrenaline(0),
                         !.game.livingPlayers = SetDelete(@, i),
                         !.game.dynamicObjects = @ \ {PlayerObj(i)}]
    IN RemoveObject(s2, PlayerObj(i))

\* damage(), death branch: what the inventory holds is dropped as loot.
ReleaseLoot(s, i) ==
    Log(IF s.players[i].items > 0
        THEN [AddLoot(s, LootObj(i)) EXCEPT !.players[i].items = 0]
        ELSE s,
        "releaseLoot")

\* damage(), death branch: new DeathMarker(this).
SpawnMarker(s, i) ==
    Log([ConstructObject(s, MarkerObj(i)) EXCEPT !.game.dynamicObjects = @ \cup {MarkerObj(i)},
                  !.game.fullDirtyObjects = @ \cup {MarkerObj(i)}],
        "spawnMarker")

\* setTimeout(endGame, 1000)
ScheduleEndGame(s) == [s EXCEPT !.timers.endGame = @ + 1, !.out.endGames = @ + 1]

\* damage(), death branch: the winning logic.
DecideGameOver(s, i) ==
    Log(IF s.game.started /\ AliveCount(s.game) \in {0, 1}
        THEN ScheduleEndGame([s EXCEPT !.game.over = TRUE])
        ELSE s,
        "decideGameOver")

DieInDocumentedOrder(s, i, source) ==
    LET s0 == [s EXCEPT !.players[i].health = SetHealth(0),
                        !.players[i].dead = TRUE,
                        !.out.deathLog = <<>>,
                        !.out.deaths[i] = @ + 1]
        s1 == DisableIntent(s0, i)
        s2 == SnapshotPosition(s1, i)
        s3 == KillerAttribution(s2, i, source)
        s4 == DestroyBody(s3, i)
        s5 == ReleaseLoot(s4, i)
        s6 == SpawnMarker(s5, i)
    IN DecideGameOver(s6, i)

\* damage(), the death branch as a whole.
Die(s, i, source) ==
    LET s0 == [s EXCEPT !.players[i].health = SetHealth(0),
                        !.players[i].dead = TRUE,
                        !.out.deathLog = <<>>,
                        !.out.deaths[i] = @ + 1]
        s1 == KillerAttribution(s0, i, source)
        s2 == DisableIntent(s1, i)
        s3 == SnapshotPosition(s2, i)
        s4 == DestroyBody(s3, i)
        s5 == ReleaseLoot(s4, i)
        s6 == SpawnMarker(s5, i)
    IN DecideGameOver(s6, i)

\* The amount damage() takes off: cut so that health stays within [0, 100], and
\* nothing for a dead player.
DamageAmount(me, amount) ==
    LET a1 == IF me.health - amount > MaxHealth THEN -(MaxHealth - me.health) ELSE amount
        a2 == IF me.health - a1 <= 0 THEN me.health ELSE a1
    IN IF me.dead THEN 0 ELSE a2

DeathConditionUnguarded(me) == me.health <= 0

\* damage(): "if (this.health <= 0 && !this.dead)"
DeathCondition(me) == me.health <= 0 /\ ~me.dead

\* damage(), past the invulnerability check.
DamageVulnerable(s, i, amount, source) ==
    LET me == s.players[i]
        a == DamageAmount(me, amount)
        s1 == [s EXCEPT !.players[i].health = SetHealth(@ - a)]
        s2 == IF a > 0
              THEN [s1 EXCEPT !.players[i].damageTaken = @ + a,
                              !.players[i].hitEffect = IF IsPlayerSource(source) THEN TRUE ELSE @]
              ELSE s1
        s3 == IF IsPlayerSource(source) /\ source[1] # i
              THEN [s2 EXCEPT !.players[source[1]].damageDone = @ + a]
              ELSE s2
        s4 == [s3 EXCEPT !.players[i].partialDirtyObjects = @ \cup {PlayerObj(i)},
                         !.game.partialDirtyObjects = @ \cup {PlayerObj(i)}]
    IN IF DeathCondition(s4.players[i]) THEN Die(s4, i, source) ELSE s4

DamageIgnoringInvulnerability(s, i, amount, source) == DamageVulnerable(s, i, amount, source)

\* Player.damage(amount, source)
Damage(s, i, amount, source) ==
    IF s.players[i].invulnerable THEN s ELSE DamageVulnerable(s, i, amount, source)

\* ------------------------------------------------------------ the melee item

\* The definition of the weapon every player is constructed with ("fists",
\* definitions/melees.ts): damage in thousandths, cooldown in milliseconds.
MeleeDefinition == [damage |-> 20000, cooldown |-> 250, fireMode |-> "Single"]

\* The delay between the start of a swing and the callback that resolves its hit.
SwingDelay == 50

\* MeleeItem._useItemNoDelayCheck: the swing starts, its hit is resolved by a
\* callback 50 ms later.  The moment of the execution is recorded, and whether
\* it came within a cooldown of the item's previous one.
UseItemNoDelayCheck(s, i, skipAttackCheck) ==
    [s EXCEPT !.players[i].lastUse = s.game.now,
              !.players[i].animationSeq = ~@,
              !.game.partialDirtyObjects = @ \cup {PlayerObj(i)},
              !.timers.swing = @ \cup {[owner |-> i, skipAttackCheck |-> skipAttackCheck,
                                        due |-> clock + SwingDelay]},
              !.out.lastSwing[i] = clock,
              !.out.swungWithinCooldown =
                  IF s.out.lastSwing[i] > 0 /\ clock - s.out.lastSwing[i] <= MeleeDefinition.cooldown
                  THEN @ \cup {i} ELSE @]

\* MeleeItem.useItem
UseItem(s, i) ==
    IF s.game.now - s.players[i].lastUse > MeleeDefinition.cooldown
    THEN UseItemNoDelayCheck(s, i, TRUE)
    ELSE s

\* The objects the swing of player i can reach: those it sees that are not dead,
\* are damageable and whose hitbox its own touches.  Positions are observed no
\* finer than Positions, so only a player at the same position is in reach.
MeleeCandidates(s, i) ==
    {j \in Players \ {i} :
        /\ PlayerObj(j) \in s.players[i].visibleObjects
        /\ ~s.players[j].dead
        /\ s.players[j].position = s.players[i].position}

\* The callback of a swing; target is the closest object in reach, <<>> when
\* the hitbox touches none.
SwingCallback(s, i, skipAttackCheck, target) ==
    LET me == s.players[i]
        s0 == s
    IN IF (me.attacking \/ skipAttackCheck) /\ ~me.dead /\ ~me.disconnected
       THEN LET s1 == IF IsPlayerSource(target)
                      THEN Damage(s0, target[1], MeleeDefinition.damage, SourcePlayer(i))
                      ELSE s0
            IN IF MeleeDefinition.fireMode = "Auto" \/ me.isMobile
               THEN [s1 EXCEPT !.timers.refire =
                                   @ \cup {[owner |-> i, due |-> clock + MeleeDefinition.cooldown]}]
               ELSE s1
       ELSE s0

\* ------------------------------------------------------------------ the gas

\* Game.advanceGas; newPosition is the point randomPointInsideCircle returns.
AdvanceGas(s, newPosition) ==
    IF s.game.gas.stage + 2 > Len(GasStages) THEN s
    ELSE
      LET currentStage == GasStages[s.game.gas.stage + 2]
          duration == currentStage.duration
          gas == s.game.gas
          g1 == [gas EXCEPT !.stage = @ + 1,
                            !.state = currentStage.state,
                            !.initialDuration = duration,
                            !.percentage = [kind |-> "num", v |-> 1000],
                            !.countdownStart = s.game.now]
          g2 == IF currentStage.state = "Waiting"
                THEN [g1 EXCEPT !.oldPosition = gas.newPosition,
                                !.newPosition = IF currentStage.newRadius # 0
                                                THEN newPosition ELSE gas.newPosition,
                                !.currentPosition = gas.newPosition,
                                !.currentRadius = currentStage.oldRadius]
                ELSE g1
          g3 == [g2 EXCEPT !.oldRadius = currentStage.oldRadius,
                           !.newRadius = currentStage.newRadius,
                           !.dps = currentStage.dps]
      IN [s EXCEPT !.game.gas = g3,
                   !.game.gasDirty = TRUE,
                   !.game.gasPercentageDirty = TRUE,
                   !.timers.advanceGas = IF duration # 0 THEN @ + 1 ELSE @,
                   !.timers.advanceGasDue = IF duration # 0
                                            THEN clock + 1000 * duration ELSE @]

\* (now - countdownStart) / (1000 * initialDuration), in thousandths; a division
\* by zero gives NaN or Infinity.
GasPercentage(g) ==
    LET elapsed == g.now - g.gas.countdownStart IN
    IF g.gas.initialDuration = 0
    THEN [kind |-> IF elapsed = 0 THEN "NaN" ELSE "Infinity", v |-> 0]
    ELSE [kind |-> "num", v |-> elapsed \div g.gas.initialDuration]

\* lerp(start, end, percentage), for a percentage that is a number
Lerp(start, end, percentage) ==
    (start * (1000 - percentage.v) + end * percentage.v) \div 1000

\* ------------------------------------------------------------ the bit stream

\* 1 << bitCount on 32-bit integers: the shift count is taken modulo 32 and a
\* shift by 31 gives the sign bit.
ShiftLeftOne(bitCount) ==
    IF bitCount % 32 = 31 THEN (-(2 ^ 30)) - 2 ^ 30 ELSE 2 ^ (bitCount % 32)

\* A number converted to an integer by a bit operation: its fraction is cut.
Truncate(num, den) == IF num >= 0 THEN num \div den ELSE -((-num) \div den)

\* BitStream.writeBits: the low bitCount bits of the value, lowest first.
WriteBits(stream, value, bitCount) ==
    LET low == IF bitCount <= 30 THEN value % (2 ^ bitCount) ELSE value
        bits == [k \in 1..bitCount |-> IF k > 31 THEN 0 ELSE (low \div 2 ^ (k - 1)) % 2]
    IN [stream EXCEPT !.buffer = @ \o bits]

RECURSIVE FromBits(_)
FromBits(bits) == IF bits = <<>> THEN 0 ELSE Head(bits) + 2 * FromBits(Tail(bits))

\* BitStream.readBits: the unsigned value of the next bitCount bits.
ReadBits(stream, bitCount) ==
    FromBits(SubSeq(stream.buffer, stream.index + 1, stream.index + bitCount))

Advance(stream, bitCount) == [stream EXCEPT !.index = @ + bitCount]

Clamp(value, min, max) == IF value < max THEN (IF value > min THEN value ELSE min) ELSE max

\* SuroiBitStream.writeFloat: ((clamped - min) / (max - min)) * range + 0.5,
\* cut to an integer by writeBits.
WriteFloat(stream, value, min, max, bitCount) ==
    LET range == ShiftLeftOne(bitCount) - 1
        clamped == Clamp(value, min, max)
    IN WriteBits(stream,
                 Truncate(2 * (clamped - min) * range + (max - min), 2 * (max - min)),
                 bitCount)

\* SuroiBitStream.readFloat: min + (max - min) * readBits(bitCount) / range, as
\* a fraction; a division by zero gives NaN or Infinity.
ReadFloat(stream, min, max, bitCount) ==
    LET range == ShiftLeftOne(bitCount) - 1
        code == ReadBits(stream, bitCount)
    IN IF range = 0
       THEN [kind |-> IF (max - min) * code = 0 THEN "NaN" ELSE "Infinity", num |-> 0, den |-> 1]
       ELSE [kind |-> "num", num |-> min * range + (max - min) * code, den |-> range]

\* Angles are counted in thirtieths of pi.
Pi == 30

\* normalizeAngle: the same angle within (-pi, pi].
NormalizeAngle(angle) ==
    LET turned == angle % (2 * Pi) IN IF turned > Pi THEN turned - 2 * Pi ELSE turned

RotationModes == {"full", "limited", "binary", "none", "unknown"}

\* generateObstacles, the rotation of the new obstacle: draw is what the random
\* generator gives; no rotation at all is "Unknown rotation type".
ObstacleRotation(mode, draw) ==
    LET rotation == CASE mode = "full" -> <<8 * draw - Pi>>
                      [] mode = "limited" -> <<draw % 4>>
                      [] mode = "binary" -> <<draw % 2>>
                      [] OTHER -> <<0>>
    IN [threw |-> rotation = <<>>, rotation |-> rotation]

\* SuroiBitStream.writeObstacleRotation
WriteObstacleRotation(stream, value, mode) ==
    CASE mode = "full" -> WriteFloat(stream, value, -Pi, Pi, 4)
      [] mode = "limited" -> WriteBits(stream, value, 2)
      [] mode = "binary" -> WriteBits(stream, value, 1)
      [] OTHER -> stream

\* The bits readObstacleRotation takes from the stream.
ObstacleRotationBits(mode) ==
    CASE mode = "full" -> 4
      [] mode = "limited" -> 2
      [] mode = "binary" -> 1
      [] OTHER -> 0

\* SuroiBitStream.readObstacleRotation
ReadObstacleRotation(stream, mode) ==
    CASE mode = "full" -> ReadFloat(stream, -Pi, Pi, 4)
      [] mode = "limited" ->
            [kind |-> "num", num |-> NormalizeAngle(ReadBits(stream, 2) * (Pi \div 2)), den |-> 1]
      [] mode = "binary" ->
            [kind |-> "num", num |-> IF ReadBits(stream, 1) = 1 THEN Pi \div 2 ELSE 0, den |-> 1]
      [] OTHER -> [kind |-> "num", num |-> 0, den |-> 1]

\* ------------------------------------------------------ the typed fields

\* The widths of the tags, and the longest player name in bytes.
PacketTypeBits == 4

ObjectCategoryBits == 3

VariationBits == 3

PlayerNameMaxLength == 16

\* ObjectDefinitionsList[category]: the bit count of the category's definitions,
\* or nothing for a category without definitions (players, death markers).
ObjectDefinitionsList ==
    [category \in 0..(2 ^ ObjectCategoryBits - 1) |->
        IF category \in {1, 2, 4} THEN <<2>> ELSE <<>>]

\* ObjectType.categoryOnly and ObjectType.fromNumber
CategoryOnly(category) == [kind |-> "objectType", category |-> category, idNumber |-> -1]

FromNumber(category, idNumber) ==
    [kind |-> "objectType", category |-> category, idNumber |-> idNumber]

\* A number as the stream's callers hold it.
Num(n) == [kind |-> "num", num |-> n, den |-> 1]

\* BitStream.writeUTF8String(string, bytes): exactly bytes bytes, the string cut
\* to them or filled up with zero bytes.
WriteUTF8String(stream, string, bytes) ==
    LET byte(k) == IF k <= Len(string) THEN string[k] ELSE 0
        bits == [j \in 1..(8 * bytes) |-> (byte((j - 1) \div 8 + 1) \div 2 ^ ((j - 1) % 8)) % 2]
    IN [stream EXCEPT !.buffer = @ \o bits]

\* BitStream.readUTF8String(bytes): bytes bytes are taken and the string ends
\* at the first zero byte.
ReadUTF8String(stream, bytes) ==
    LET all == [k \in 1..bytes |-> ReadBits(Advance(stream, 8 * (k - 1)), 8)]
        zero == {k \in 1..bytes : all[k] = 0}
        length == IF zero = {} THEN bytes ELSE (CHOOSE k \in zero : \A j \in zero : k <= j) - 1
    IN [value |-> SubSeq(all, 1, length), stream |-> Advance(stream, 8 * bytes)]

\* SuroiBitStream.writeVector2 and readVector
WriteVector2(stream, x, y, minX, minY, maxX, maxY, bitCount) ==
    WriteFloat(WriteFloat(stream, x, minX, maxX, bitCount), y, minY, maxY, bitCount)

ReadVector(stream, minX, minY, maxX, maxY, bitCount) ==
    [kind |-> "vector",
     x |-> ReadFloat(stream, minX, maxX, bitCount),
     y |-> ReadFloat(Advance(stream, bitCount), minY, maxY, bitCount)]

\* DeathMarker.serializeFull (server): the name with its colour, then isNew.
DeathMarkerSerializeFull(stream, marker) ==
    LET named == WriteUTF8String(stream, marker.name, PlayerNameMaxLength)
        flagged == WriteBits(named, IF marker.isDev THEN 1 ELSE 0, 1)
        coloured == IF marker.isDev THEN WriteUTF8String(flagged, marker.color, 10) ELSE flagged
    IN WriteBits(coloured, IF marker.isNew THEN 1 ELSE 0, 1)

\* deserializeFull reading no colour, whatever the flag.
DeathMarkerDeserializeFullPlain(stream) ==
    LET playerName == ReadUTF8String(stream, PlayerNameMaxLength)
        isDev == ReadBits(playerName.stream, 1) = 1
        flagged == Advance(playerName.stream, 1)
        color == [value |-> <<>>, stream |-> flagged]
    IN [value |-> [kind |-> "deathMarker", name |-> playerName.value, isDev |-> isDev,
                   color |-> color.value, isNew |-> ReadBits(color.stream, 1) = 1],
        stream |-> Advance(color.stream, 1)]

\* DeathMarker.deserializeFull (client): readPlayerName, readBoolean, the
\* colour if the flag is set, readBoolean.
DeathMarkerDeserializeFull(stream) ==
    LET playerName == ReadUTF8String(stream, PlayerNameMaxLength)
        isDev == ReadBits(playerName.stream, 1) = 1
        flagged == Advance(playerName.stream, 1)
        color == IF isDev THEN ReadUTF8String(flagged, 10)
                 ELSE [value |-> <<>>, stream |-> flagged]
    IN [value |-> [kind |-> "deathMarker", name |-> playerName.value, isDev |-> isDev,
                   color |-> color.value, isNew |-> ReadBits(color.stream, 1) = 1],
        stream |-> Advance(color.stream, 1)]

TypedPairs ==
    {"packetType", "objectType", "objectID", "variation", "position",
     "obstacleRotation", "playerNameWithColor"}

\* The write method of each typed pair: writePacketType, writeObjectType,
\* writeObjectID, writeVariation, writePosition, writeObstacleRotation and
\* writePlayerNameWithColor.
WriteTyped(stream, pair, x, mode) ==
    CASE pair = "packetType" -> WriteBits(stream, x.num, PacketTypeBits)
      [] pair = "objectType" ->
            LET tagged == WriteBits(stream, x.category, ObjectCategoryBits)
                definitions == ObjectDefinitionsList[x.category]
            IN IF definitions # <<>>
               THEN WriteBits(tagged, x.idNumber, definitions[1])
               ELSE tagged
      [] pair = "objectID" -> WriteBits(stream, x.num, ObjectIDBits)
      [] pair = "variation" -> WriteBits(stream, x.num, VariationBits)
      [] pair = "position" -> WriteVector2(stream, x.x.num, 720 - x.y.num, 0, 0, 1024, 1024, 16)
      [] pair = "obstacleRotation" -> WriteObstacleRotation(stream, x.num, mode)
      [] pair = "playerNameWithColor" ->
            LET named == WriteUTF8String(stream, x.name, PlayerNameMaxLength)
                flagged == WriteBits(named, IF x.isDev THEN 1 ELSE 0, 1)
            IN IF x.isDev THEN WriteUTF8String(flagged, x.color, 10) ELSE flagged
      [] pair = "deathMarker" -> DeathMarkerSerializeFull(stream, x)

\* The read method of each typed pair: what it returns and where it leaves
\* the stream.
ReadTyped(stream, pair, mode) ==
    CASE pair = "deathMarker" -> DeathMarkerDeserializeFull(stream)
      [] pair = "packetType" ->
            [value |-> Num(ReadBits(stream, PacketTypeBits)),
             stream |-> Advance(stream, PacketTypeBits)]
      [] pair = "objectType" ->
            LET category == ReadBits(stream, ObjectCategoryBits)
                rest == Advance(stream, ObjectCategoryBits)
                definitions == ObjectDefinitionsList[category]
            IN IF definitions # <<>>
               THEN [value |-> FromNumber(category, ReadBits(rest, definitions[1])),
                     stream |-> Advance(rest, definitions[1])]
               ELSE [value |-> CategoryOnly(category), stream |-> rest]
      [] pair = "objectID" ->
            [value |-> Num(ReadBits(stream, ObjectIDBits)),
             stream |-> Advance(stream, ObjectIDBits)]
      [] pair = "variation" ->
            [value |-> Num(ReadBits(stream, VariationBits)),
             stream |-> Advance(stream, VariationBits)]
      [] pair = "position" ->
            [value |-> ReadVector(stream, 0, 0, 1024, 1024, 16),
             stream |-> Advance(stream, 32)]
      [] pair = "obstacleRotation" ->
            [value |-> ReadObstacleRotation(stream, mode),
             stream |-> Advance(stream, ObstacleRotationBits(mode))]
      [] pair = "playerNameWithColor" ->
            LET playerName == ReadUTF8String(stream, PlayerNameMaxLength)
                isDev == ReadBits(playerName.stream, 1) = 1
                flagged == Advance(playerName.stream, 1)
                color == ReadUTF8String(flagged, 10)
            IN [value |-> [kind |-> "markup",
                           style |-> IF isDev THEN <<color.value>> ELSE <<>>,
                           text |-> playerName.value],
                stream |-> IF isDev THEN color.stream ELSE flagged]

\* ----------------------------------------------------------------- the tick

\* A damage() call made by a handler, noted with whether its target was
\* invulnerable when it was made.
CallDamage(s, i, amount, source) ==
    Damage([s EXCEPT !.out.damageCalls =
                @ \cup {[target |-> i, invulnerable |-> s.players[i].invulnerable]}],
           i, amount, source)

\* tick, "Update loot positions": the loot the physics engine has moved since
\* the last tick is partially dirty.
UpdateLoot(s, movedLoot) ==
    [s EXCEPT !.game.partialDirtyObjects = @ \cup (movedLoot \cap s.game.loot)]

\* The ticks that have run before the one running.
TickNumber(s) == s.game.tickTimes.length

\* Game.addBullet and the Bullet constructor, which takes the bullet's id from
\* bulletIDAllocator and makes its body.
AddBullet(s, shooter) ==
    LET id == TakeNextOf(s.game.bulletIDAllocator, BulletIDBits)
    IN [s EXCEPT !.game.bulletIDAllocator = @ \cup {id},
                 !.game.bullet[shooter] =
                     [NoBullet EXCEPT !.fired = TRUE, !.id = id, !.bodyAlive = TRUE,
                                      !.damage = s.players[shooter].ballistics.damage],
                 !.game.bullets = @ \cup {shooter},
                 !.game.newBullets = @ \cup {shooter}]

\* GunItem.useItem: the gun fires a bullet, unless it has fired in this run.
FireGun(s, i) == IF s.game.bullet[i].fired THEN s ELSE AddBullet(s, i)

\* player.activeItem?.useItem()
UseActiveItem(s, i) ==
    IF s.players[i].activeItem = "gun" THEN FireGun(s, i) ELSE UseItem(s, i)

\* Game.removeBullet
RemoveBullet(s, bullet) ==
    LET id == s.game.bullet[bullet].id IN
    [s EXCEPT !.game.bulletIDAllocator = Give(@, id),
              !.game.bullet[bullet].bodyAlive = FALSE,
              !.game.bullet[bullet].gives = @ + 1,
              !.game.bullets = @ \ {bullet},
              !.out.gaveFree = IF id \in s.game.bulletIDAllocator
                               THEN @ ELSE @ \cup {<<"bullet", bullet>>}]

\* The removal of a bullet in a phase of the tick, noted on the bullet.
RemoveBulletIn(s, bullet, phase) ==
    [RemoveBullet(s, bullet) EXCEPT !.game.bullet[bullet].removedIn = phase,
                                    !.game.bullet[bullet].removedAt = TickNumber(s)]

\* tick, "Update bullets" with > for >=: only a bullet past its maximum
\* distance is removed.
UpdateBulletsPastRangeOnly(s) ==
    LET RECURSIVE Expire(_, _)
        Expire(t, bullets) ==
            IF bullets = {} THEN t
            ELSE LET bullet == CHOOSE b \in bullets : TRUE
                     me == t.game.bullet[bullet]
                 IN Expire(IF me.travelled > BulletRange /\ ~me.dead
                           THEN RemoveBulletIn(t, bullet, "expiry")
                           ELSE t,
                           bullets \ {bullet})
    IN Expire(s, s.game.bullets)

\* tick, "Update bullets": a bullet at or past its maximum distance that is not
\* dead is removed.
UpdateBullets(s) ==
    LET RECURSIVE Expire(_, _)
        Expire(t, bullets) ==
            IF bullets = {} THEN t
            ELSE LET bullet == CHOOSE b \in bullets : TRUE
                     me == t.game.bullet[bullet]
                 IN Expire(IF me.travelled >= BulletRange /\ ~me.dead
                           THEN RemoveBulletIn(t, bullet, "expiry")
                           ELSE t,
                           bullets \ {bullet})
    IN Expire(s, s.game.bullets)

\* tick, "Do damage to objects hit by bullets", in the order of the records.
RECURSIVE ApplyDamageRecords(_, _)
ApplyDamageRecords(s, records) ==
    IF records = <<>> THEN [s EXCEPT !.game.damageRecords = <<>>]
    ELSE LET r == Head(records)
             bullet == s.game.bullet[r.bullet]
             s1 == IF IsPlayerObj(r.damaged)
                   THEN CallDamage(s, r.damaged[2], bullet.damage, SourcePlayer(r.damager))
                   ELSE s
             s2 == RemoveBulletIn(s1, r.bullet, "damage")
         IN ApplyDamageRecords(
                [s2 EXCEPT !.game.deletedBulletIDs = @ \cup {bullet.id},
                           !.game.bullet[r.bullet].applied = @ + 1,
                           !.game.bullet[r.bullet].appliedAt = TickNumber(s)],
                Tail(records))

\* tick, "Update gas" and "Red zone damage".
GasDamageDueAfterPeriod(g) == g.gas.ticksSinceLastDamage + 1 > GasDamagePeriod

GasDamageDue(g) == g.gas.ticksSinceLastDamage + 1 >= GasDamagePeriod

UpdateGas(s) ==
    LET g == s.game
        s1 == IF g.gas.state # "Inactive"
              THEN [s EXCEPT !.game.gas.percentage = GasPercentage(g),
                             !.game.gasPercentageDirty = TRUE]
              ELSE s
        gas == s1.game.gas
    IN IF GasDamageDue(g)
       THEN IF gas.state = "Advancing"
            THEN [s1 EXCEPT !.game.gas.ticksSinceLastDamage = 0,
                            !.game.gas.currentPosition =
                                <<Lerp(gas.oldPosition[1], gas.newPosition[1], gas.percentage),
                                  Lerp(gas.oldPosition[2], gas.newPosition[2], gas.percentage)>>,
                            !.game.gas.currentRadius =
                                Lerp(gas.oldRadius, gas.newRadius, gas.percentage)]
            ELSE [s1 EXCEPT !.game.gas.ticksSinceLastDamage = 0]
       ELSE [s1 EXCEPT !.game.gas.ticksSinceLastDamage = @ + 1]

\* What world.step may do to the bodies: a body with a velocity along x is found
\* at a position in that direction, or where it was; every other body stays.
PhysicsOutcomes ==
    {f \in [Players -> Positions] :
        \A i \in Players :
            LET me == players[i] IN
            \/ f[i] = me.position
            \/ /\ me.exists /\ me.bodyAlive /\ me.velocity[1] # 0
               /\ (f[i][1] - me.position[1]) * me.velocity[1] > 0
               /\ f[i][2] = me.position[2]}

\* tick, "Update physics"
StepPhysics(s, positions) ==
    [s EXCEPT !.players = [i \in Players |-> [s.players[i] EXCEPT !.position =
                              IF s.players[i].bodyAlive THEN positions[i] ELSE @]]]

\* shouldDie of the begin-contact handler
ShouldDie(bullet) == bullet.travelled <= BulletRange /\ ~bullet.dead

\* The begin-contact handler with the test of bullet.dead left out.
BeginContactOfDeadToo(s, bullet, other) ==
    IF s.game.bullet[bullet].travelled <= BulletRange
    THEN [s EXCEPT !.game.bullet[bullet].dead = TRUE,
                   !.game.bullet[bullet].records = @ + 1,
                   !.game.bullet[bullet].recordedAt = TickNumber(s),
                   !.game.damageRecords =
                       Append(@, [damaged |-> other, damager |-> bullet, bullet |-> bullet])]
    ELSE s

\* The begin-contact handler, for the contact of a bullet's fixture with that
\* of another object.
BeginContact(s, bullet, other) ==
    IF ShouldDie(s.game.bullet[bullet])
    THEN [s EXCEPT !.game.bullet[bullet].dead = TRUE,
                   !.game.bullet[bullet].records = @ + 1,
                   !.game.bullet[bullet].recordedAt = TickNumber(s),
                   !.game.damageRecords =
                       Append(@, [damaged |-> other, damager |-> bullet, bullet |-> bullet])]
    ELSE s

\* What a bullet may touch: the body of another player, or a world boundary.
BulletTargets(bullet) ==
    {PlayerObj(j) : j \in {j \in Players \ {bullet} : players[j].bodyAlive}}
        \cup {BoundaryObj(1)}

\* What world.step may do to the bullets in flight: each travels one or two
\* steps and begins contact with no, one or two objects, one after the other.
BulletOutcomes ==
    LET bodies == {PlayerObj(j) : j \in Players}
        contacts == {<<>>} \cup {<<a>> : a \in bodies \cup {BoundaryObj(1)}}
                        \cup {<<a, BoundaryObj(1)>> : a \in bodies}
        idle == [advance |-> 1, contacts |-> <<>>]
        Of(k) == [advance : {1, 2},
                  contacts : {c \in contacts : SeqToSet(c) \subseteq BulletTargets(k)}]
        RECURSIVE Extend(_, _)
        Extend(flights, bullets) ==
            IF bullets = {} THEN flights
            ELSE LET k == CHOOSE b \in bullets : \A c \in bullets : b <= c
                 IN Extend({[f EXCEPT ![k] = o] : f \in flights, o \in Of(k)}, bullets \ {k})
    IN Extend({[k \in Players |-> idle]}, game.bullets)

\* tick, "Update physics", the bullets: the bullets that have a body travel
\* and the handler runs for each contact, bullet after bullet.
StepBullets(s, flight) ==
    LET RECURSIVE Contacts(_, _, _)
        Contacts(t, bullet, others) ==
            IF others = <<>> THEN t
            ELSE Contacts(IF Head(others)[1] = "player" => t.players[Head(others)[2]].bodyAlive
                          THEN BeginContact(t, bullet, Head(others))
                          ELSE t,
                          bullet, Tail(others))
        RECURSIVE Fly(_, _)
        Fly(t, bullets) ==
            IF bullets = {} THEN t
            ELSE LET bullet == CHOOSE b \in bullets : \A c \in bullets : b <= c
                     moved == [t EXCEPT !.game.bullet[bullet].travelled =
                                  IF @ + flight[bullet].advance > BulletRange
                                  THEN BulletRange + 1 ELSE @ + flight[bullet].advance]
                 IN Fly(Contacts(moved, bullet, flight[bullet].contacts), bullets \ {bullet})
    IN Fly([s EXCEPT !.out.recordsAtStep = Len(s.game.damageRecords)], s.game.bullets)

\* Player.setVelocity
SetVelocity(s, i, velocity) ==
    [s EXCEPT !.players[i].velocity = velocity,
              !.players[i].movesSinceLastUpdate =
                  IF velocity[1] # 0 \/ velocity[2] # 0 THEN @ + 1 ELSE @]

Bit(b) == IF b THEN 1 ELSE 0

\* The direction the movement intent resolves to: opposite keys cancel; a mobile
\* joystick that is moving always gives a direction (its angle is taken as 0).
\* The speed it is scaled by is positive.
MovementVector(me) ==
    IF me.isMobile /\ me.movement.moving
    THEN <<1, 0>>
    ELSE <<Bit(me.movement.right) - Bit(me.movement.left),
           Bit(me.movement.up) - Bit(me.movement.down)>>

\* health += adrenaline * 0.00039
Regenerate(me) == SetHealth(me.health + (me.adrenaline * 39) \div 100000)

\* tick, the body of the first loop over the living players.
PlayerStep(s, i, gasDamage) ==
    LET me == s.players[i]
        s1 == SetVelocity(s, i, MovementVector(me))
        s2 == IF IsMoving(me) \/ me.turning
              THEN [DisableInvulnerability(s1, i) EXCEPT
                        !.game.partialDirtyObjects = @ \cup {PlayerObj(i)}]
              ELSE s1
        s3 == IF s2.players[i].adrenaline > 0
              THEN [s2 EXCEPT !.players[i].adrenaline = SetAdrenaline(@ - AdrenalineDrain)]
              ELSE s2
        s4 == [s3 EXCEPT !.players[i].health = Regenerate(s3.players[i])]
        s5 == IF me.startedAttacking
              THEN UseActiveItem(DisableInvulnerability(
                       [s4 EXCEPT !.players[i].startedAttacking = FALSE], i), i)
              ELSE s4
        s6 == IF gasDamage /\ IsInGas(s5.game, s5.players[i].position)
              THEN CallDamage(s5, i, s5.game.gas.dps, NoSource)
              ELSE s5
    IN [s6 EXCEPT !.players[i].turning = FALSE]

RECURSIVE LivingPlayersLoop(_, _, _)
LivingPlayersLoop(s, living, gasDamage) ==
    IF living = <<>> THEN s
    ELSE LivingPlayersLoop(PlayerStep(s, Head(living), gasDamage), Tail(living), gasDamage)

ProjectDirtyIgnoringFull(s, i) ==
    LET me == s.players[i]
        full == me.fullDirtyObjects \cup
                    {o \in s.game.fullDirtyObjects : o \in me.visibleObjects}
        partial == me.partialDirtyObjects \cup
                    {o \in s.game.partialDirtyObjects : o \in me.visibleObjects}
        deleted == me.deletedObjects \cup
                    {o \in s.game.deletedObjects : o \in me.visibleObjects /\ o # PlayerObj(i)}
    IN [s EXCEPT !.players[i].fullDirtyObjects = full,
                 !.players[i].partialDirtyObjects = partial,
                 !.players[i].deletedObjects = deleted]

\* tick, second loop: the three global dirty sets seen through the player's
\* visible set.
ProjectDirty(s, i) ==
    LET me == s.players[i]
        full == me.fullDirtyObjects \cup
                    {o \in s.game.fullDirtyObjects : o \in me.visibleObjects}
        partial == me.partialDirtyObjects \cup
                    {o \in s.game.partialDirtyObjects : o \in me.visibleObjects /\ o \notin full}
        deleted == me.deletedObjects \cup
                    {o \in s.game.deletedObjects : o \in me.visibleObjects /\ o # PlayerObj(i)}
    IN [s EXCEPT !.players[i].fullDirtyObjects = full,
                 !.players[i].partialDirtyObjects = partial,
                 !.players[i].deletedObjects = deleted]

\* What may go wrong with a player's packets in one handler: serialize() of its
\* kill-feed packets or of its update packet throws, or socket.send() throws.
Faults == {"none", "serializeKillFeed", "serializeUpdate", "send"}

SerializeThrows(s, i, packet) ==
    \/ packet.type = "killFeed" /\ s.out.faults[i] = "serializeKillFeed"
    \/ packet.type = "update" /\ s.out.faults[i] = "serializeUpdate"

\* Player.sendData: socket.send() is called with the bytes of the stream; an
\* error it throws is caught.
SendData(s, i, packet, complete) ==
    [s EXCEPT !.out.socket[i] =
        @ \cup {[packet |-> packet, complete |-> complete,
                  delivered |-> s.out.faults[i] # "send"]},
              !.out.firstSent[i] = IF Len(@) < 2 THEN Append(@, packet.type) ELSE @]

\* Player.sendPacket: an error of serialize() is caught, and sendData() is
\* called with the stream whatever has happened.
SendPacket(s, i, packet) == SendData(s, i, packet, ~SerializeThrows(s, i, packet))

\* for (const message of this.killFeedMessages) player.sendPacket(message)
RECURSIVE SendKillFeed(_, _, _)
SendKillFeed(s, i, messages) ==
    IF messages = {} THEN s
    ELSE LET message == CHOOSE m \in messages : TRUE
         IN SendKillFeed(SendPacket(s, i, [type |-> "killFeed", message |-> message]),
                         i, messages \ {message})

\* sendPacket(new UpdatePacket(player)): the packet carries the player's three
\* dirty sets, and serializing it empties them; a serialization that throws
\* leaves them as they are.
SendUpdatePacket(s, i) ==
    LET me == s.players[i]
        packet == [type |-> "update", message |-> <<>>]
        s1 == SendPacket(s, i, packet)
    IN IF SerializeThrows(s, i, packet) THEN s1
       ELSE [s1 EXCEPT !.out.lastUpdate[i] = [sent |-> TRUE, full |-> me.fullDirtyObjects,
                                              partial |-> me.partialDirtyObjects,
                                              deleted |-> me.deletedObjects],
                       !.players[i].fullDirtyObjects = {},
                       !.players[i].partialDirtyObjects = {},
                       !.players[i].deletedObjects = {}]

\* The test of the second loop with >= for >.
NeedsVisibilityUpdateFromThreshold(s, i) ==
    s.players[i].movesSinceLastUpdate >= VisibilityMoveThreshold \/ s.game.updateObjects

\* tick, second loop: movesSinceLastUpdate > 8 || this.updateObjects
NeedsVisibilityUpdate(s, i) ==
    s.players[i].movesSinceLastUpdate > VisibilityMoveThreshold \/ s.game.updateObjects

\* tick, the body of the second loop over the connected players.
ConnectedStep(s, i) ==
    IF ~s.players[i].joined THEN s
    ELSE LET seen == [ran |-> NeedsVisibilityUpdate(s, i),
                      moves |-> s.players[i].movesSinceLastUpdate,
                      flag |-> s.game.updateObjects]
             s0 == [s EXCEPT !.out.visibility[i] = seen,
                             !.out.newBulletIDs = {s.game.bullet[k].id : k \in s.game.newBullets},
                             !.out.deletedBulletIDs = s.game.deletedBulletIDs]
             s1 == IF NeedsVisibilityUpdate(s, i) THEN UpdateVisibleObjects(s0, i) ELSE s0
             s2 == ProjectDirty(s1, i)
         IN SendUpdatePacket(SendKillFeed(s2, i, s2.game.killFeedMessages), i)

\* The second loop left by the first error of a player's packets.
RECURSIVE ConnectedPlayersLoopAborting(_, _)
ConnectedPlayersLoopAborting(s, connected) ==
    IF connected = <<>> THEN s
    ELSE IF s.players[Head(connected)].joined /\ s.out.faults[Head(connected)] # "none"
    THEN s
    ELSE ConnectedPlayersLoopAborting(ConnectedStep(s, Head(connected)), Tail(connected))

RECURSIVE ConnectedPlayersLoop(_, _)
ConnectedPlayersLoop(s, connected) ==
    IF connected = <<>> THEN s
    ELSE ConnectedPlayersLoop(ConnectedStep(s, Head(connected)), Tail(connected))

ResetTickKeepingFlags(s) ==
    [s EXCEPT !.game.fullDirtyObjects = {},
              !.game.partialDirtyObjects = {},
              !.game.deletedObjects = {},
              !.game.newBullets = {},
              !.game.deletedBulletIDs = {},
              !.game.explosions = {},
              !.game.killFeedMessages = {},
              !.game.gasDirty = FALSE,
              !.game.gasPercentageDirty = FALSE,
              !.players = [i \in Players |->
                  IF i \in SeqToSet(s.game.livingPlayers)
                  THEN [s.players[i] EXCEPT !.hitEffect = FALSE]
                  ELSE s.players[i]]]

\* tick, "Reset everything", and the hit effect of the living players.
ResetTick(s) ==
    [s EXCEPT !.game.fullDirtyObjects = {},
              !.game.partialDirtyObjects = {},
              !.game.deletedObjects = {},
              !.game.newBullets = {},
              !.game.deletedBulletIDs = {},
              !.game.explosions = {},
              !.game.killFeedMessages = {},
              !.game.aliveCountDirty = FALSE,
              !.game.gasDirty = FALSE,
              !.game.gasPercentageDirty = FALSE,
              !.game.updateObjects = FALSE,
              !.players = [i \in Players |->
                  IF i \in SeqToSet(s.game.livingPlayers)
                  THEN [s.players[i] EXCEPT !.hitEffect = FALSE]
                  ELSE s.players[i]]]

\* tick, "Stop the game in 1 second if there are no more players alive"
StopIfNoneAlive(s) ==
    IF s.game.started /\ AliveCount(s.game) = 0 /\ ~s.game.over
    THEN ScheduleEndGame([s EXCEPT !.game.over = TRUE])
    ELSE s

ScheduleNextTickUnclamped(s, tickTime) ==
    [s EXCEPT !.game.tickTimes =
                  IF @.length + 1 >= 200 THEN [length |-> 0, last |-> tickTime]
                  ELSE [length |-> @.length + 1, last |-> tickTime],
              !.game.delay = TickPeriod - tickTime,
              !.timers.tick = TRUE]

\* tick, "Record performance and start the next tick"
ScheduleNextTick(s, tickTime) ==
    [s EXCEPT !.game.tickTimes =
                  IF @.length + 1 >= 200 THEN [length |-> 0, last |-> tickTime]
                  ELSE [length |-> @.length + 1, last |-> tickTime],
              !.game.delay = Max(0, TickPeriod - tickTime),
              !.timers.tick = TRUE]

\* The tick callback as a whole, from the state s with now already set.
TickBody(s, tickTime, positions, movedLoot, flight) ==
    LET gasDamage == GasDamageDue(s.game)
        s1 == UpdateLoot(s, movedLoot)
        s2 == UpdateBullets(s1)
        s3 == ApplyDamageRecords(s2, s2.game.damageRecords)
        s4 == UpdateGas(s3)
        s5 == StepBullets(StepPhysics(s4, positions), flight)
        s6 == LivingPlayersLoop(s5, s5.game.livingPlayers, gasDamage)
        s7 == ConnectedPlayersLoop(s6, s6.game.connectedPlayers)
        s8 == ResetTick(s7)
        s9 == StopIfNoneAlive(s8)
    IN ScheduleNextTick(s9, tickTime)

\* ------------------------------------------------------------------ actions

Commit(s) ==
    /\ game' = s.game
    /\ players' = s.players
    /\ timers' = s.timers
    /\ out' = s.out

\* The state a handler starts from.
Begin(handler) ==
    [State EXCEPT !.out.handler = handler,
                  !.out.damageCalls = {},
                  !.out.deathLog = <<>>,
                  !.out.lastUpdate = [i \in Players |-> NoPacket],
                  !.out.faults = [i \in Players |-> "none"],
                  !.out.socket = [i \in Players |-> {}],
                  !.out.visibility = [i \in Players |-> NoVisibilityPass],
                  !.out.recordsAtStep = 0,
                  !.out.newBulletIDs = {},
                  !.out.deletedBulletIDs = {}]

\* The Game constructor has run: the first tick is scheduled.
Constructed ==
    ConstructObject([game |-> NewGame, players |-> [i \in Players |-> AbsentPlayer],
                     timers |-> [NoTimers EXCEPT !.tick = TRUE], out |-> NoOutput],
                    ObstacleObj(1))

\* Idle ticks with no player only count ticksSinceLastDamage up (modulo 30).
AfterIdleTicks(s, idleTicks) ==
    [s EXCEPT !.game.now = StartClock,
              !.game.gas.ticksSinceLastDamage = idleTicks % GasDamagePeriod,
              !.game.tickTimes = [length |-> idleTicks % 200, last |-> 0]]

\* Game.addPlayer, on a socket upgrade.
AddPlayerAt(s, i, position) ==
    ConstructObject([s EXCEPT !.players[i] = NewPlayer(position)], PlayerObj(i))

\* Game.activatePlayer, on the player's JoinPacket (which says whether the
\* client is a mobile one).
\* The match starting at any activation before it has started, whatever the
\* number of living players.
MatchStartsAlone(s) == ~s.game.started

\* The test of activatePlayer for the start of the match.
MatchStarts(s) == AliveCount(s.game) > 1 /\ ~s.game.started

\* The map packet before the JoinedPacket.
SendMapThenJoined(s, i) ==
    SendPacket(SendPacket(s, i, [type |-> "map", message |-> <<>>]),
               i, [type |-> "joined", message |-> <<>>])

\* player.sendPacket(new JoinedPacket(player)); player.sendPacket(this.mapPacket)
SendJoinPackets(s, i) ==
    SendPacket(SendPacket(s, i, [type |-> "joined", message |-> <<>>]),
               i, [type |-> "map", message |-> <<>>])

ActivatePlayerAs(s, i, isMobile, gasPosition) ==
    LET s1 == [s EXCEPT !.players[i].isMobile = isMobile,
                        !.game.livingPlayers = SetAdd(@, i),
                        !.game.connectedPlayers = SetAdd(@, i),
                        !.game.dynamicObjects = @ \cup {PlayerObj(i)},
                        !.game.fullDirtyObjects = @ \cup {PlayerObj(i)},
                        !.game.updateObjects = TRUE,
                        !.game.aliveCountDirty = TRUE,
                        !.game.killFeedMessages =
                            @ \cup {[type |-> "Join", player |-> i, joined |-> TRUE]}]
        s2 == [SendJoinPackets([UpdateVisibleObjects(s1, i) EXCEPT !.players[i].joined = TRUE], i)
                  EXCEPT !.timers.invulnerability = @ \cup {i}]
    IN IF MatchStarts(s2)
       THEN [AdvanceGas([s2 EXCEPT !.game.started = TRUE], gasPosition)
                EXCEPT !.timers.allowJoin = TRUE]
       ELSE s2

\* Players i..NumPlayers connect, player j at position[j].
RECURSIVE ConnectAll(_, _, _)
ConnectAll(s, i, position) ==
    IF i > NumPlayers THEN s
    ELSE ConnectAll(AddPlayerAt(s, i, position[i]), i + 1, position)

\* Players i..NumPlayers send their JoinPacket, one after the other.
RECURSIVE ActivateAll(_, _)
ActivateAll(s, i) ==
    IF i > NumPlayers THEN s
    ELSE ActivateAll(ActivatePlayerAs(s, i, FALSE, <<GasCentre, GasCentre>>), i + 1)

\* Every player has connected and then joined.
JoinAll(s, position) == ActivateAll(ConnectAll(s, 1, position), 1)

AtCentre == [i \in Players |-> <<GasCentre, GasCentre>>]

\* Every player has joined at the centre of the map, before the first tick.
JoinedAtCentre == JoinAll(AfterIdleTicks(Constructed, 0), AtCentre)

\* The run starts from the state s and may take the given number of ticks.
StartFor(s, ticks) ==
    /\ clock = StartClock
    /\ game = s.game
    /\ players = s.players
    /\ timers = s.timers
    /\ out = s.out
    /\ ticksLeft = ticks
    /\ callsLeft = MaxCalls

Start(s) == StartFor(s, MaxTicks)

\* In Random spawn mode addPlayer draws positions until one is outside the gas.
AddPlayer(i, position) ==
    /\ ~players[i].exists
    /\ ~IsInGas(game, position)
    /\ Commit(AddPlayerAt(Begin("addPlayer"), i, position))
    /\ UNCHANGED <<clock, ticksLeft, callsLeft>>

ActivatePlayer(i, isMobile, gasPosition) ==
    /\ players[i].exists /\ ~players[i].joined /\ ~players[i].disconnected
    /\ Commit(ActivatePlayerAs(Begin("activatePlayer"), i, isMobile, gasPosition))
    /\ UNCHANGED <<clock, ticksLeft, callsLeft>>

\* The InputPackets clients send: the movement keys (or the joystick of a
\* mobile client), the attack flag and whether the player turned.
NoKeys == [up |-> FALSE, down |-> FALSE, left |-> FALSE, right |-> FALSE, moving |-> FALSE]

InputPacket(movement, attacking, turning) ==
    [movement |-> movement, attacking |-> attacking, turning |-> turning]

MovementPackets(me) ==
    {InputPacket(NoKeys, FALSE, FALSE),
     InputPacket(NoKeys, FALSE, TRUE),
     InputPacket([NoKeys EXCEPT !.left = TRUE, !.right = TRUE], FALSE, FALSE),
     IF me.isMobile
     THEN InputPacket([NoKeys EXCEPT !.moving = TRUE], FALSE, FALSE)
     ELSE InputPacket([NoKeys EXCEPT !.right = TRUE], FALSE, FALSE)}

AttackPackets(me) == {InputPacket(NoKeys, TRUE, FALSE)}

\* An InputPacket of a joined, living player: startedAttacking is the rising
\* edge of the attack flag.
Input(i, packet) ==
    /\ players[i].joined /\ ~players[i].disconnected /\ ~players[i].dead
    /\ Commit([Begin("input") EXCEPT
                  !.players[i].movement = packet.movement,
                  !.players[i].startedAttacking =
                      @ \/ (packet.attacking /\ ~players[i].attacking),
                  !.players[i].attacking = packet.attacking,
                  !.players[i].turning = packet.turning])
    /\ UNCHANGED <<clock, ticksLeft, callsLeft>>

\* Game.removePlayer, on the socket's close.
RemovePlayer(i) ==
    /\ players[i].exists /\ ~players[i].disconnected
    /\ LET me == players[i]
           s1 == [Begin("removePlayer") EXCEPT
                      !.players[i].disconnected = TRUE,
                      !.game.aliveCountDirty = TRUE,
                      !.game.killFeedMessages =
                          IF ~me.dead
                          THEN @ \cup {[type |-> "Join", player |-> i, joined |-> FALSE]}
                          ELSE @,
                      !.game.connectedPlayers = SetDelete(@, i)]
           s2 == IF me.canDespawn
                 THEN RemoveObject([s1 EXCEPT !.game.livingPlayers = SetDelete(@, i),
                                              !.game.dynamicObjects = @ \ {PlayerObj(i)},
                                              !.players[i].bodyAlive = FALSE,
                                              !.players[i].velocity = <<0, 0>>],
                                   PlayerObj(i))
                 ELSE s1
       IN Commit(s2)
    /\ UNCHANGED <<clock, ticksLeft, callsLeft>>

\* The callback activatePlayer sets for 5 s after the join.
InvulnerabilityTimeout(i) ==
    /\ i \in timers.invulnerability
    /\ Commit(DisableInvulnerability(
           [Begin("invulnerabilityTimeout") EXCEPT !.timers.invulnerability = @ \ {i}], i))
    /\ UNCHANGED <<clock, ticksLeft, callsLeft>>

\* The callback a swing sets for 50 ms later.
Swing(i, skipAttackCheck, target) ==
    /\ target \in {NoSource} \cup {SourcePlayer(j) : j \in MeleeCandidates(State, i)}
    /\ \E timer \in timers.swing :
          /\ timer.owner = i /\ timer.skipAttackCheck = skipAttackCheck
          /\ clock >= timer.due
          /\ Commit(SwingCallback([Begin("swing") EXCEPT !.timers.swing = @ \ {timer}],
                                  i, skipAttackCheck, target))
    /\ UNCHANGED <<clock, ticksLeft, callsLeft>>

\* The callback a swing's callback sets, a cooldown later, for an automatic or
\* a mobile attacker.
Refire(i) ==
    /\ \E timer \in timers.refire :
          /\ timer.owner = i
          /\ clock >= timer.due
          /\ Commit(UseItemNoDelayCheck([Begin("refire") EXCEPT !.timers.refire = @ \ {timer}],
                                        i, FALSE))
    /\ UNCHANGED <<clock, ticksLeft, callsLeft>>

\* The callback advanceGas sets for the end of the stage, at whatever moment
\* the model lets it run.
AdvanceGasTimeout(gasPosition) ==
    /\ timers.advanceGas > 0
    /\ Commit(AdvanceGas([Begin("advanceGas") EXCEPT !.timers.advanceGas = @ - 1], gasPosition))
    /\ UNCHANGED <<clock, ticksLeft, callsLeft>>

\* The same callback run by the timer: never before the delay setTimeout was
\* given has passed.
AdvanceGasDue(gasPosition) ==
    /\ clock >= timers.advanceGasDue
    /\ AdvanceGasTimeout(gasPosition)

\* Time passes between two callbacks of the event loop.
ElapseUntil(ms, limit) ==
    /\ clock + ms <= limit
    /\ clock' = clock + ms
    /\ UNCHANGED <<game, players, timers, ticksLeft, callsLeft, out>>

Elapse(ms) == ElapseUntil(ms, MaxClock)

\* endGame (server.ts), the callback the winning logic sets for 1 s later: it
\* stops the game, which the tick callback reads as game.stopped.
EndGame ==
    /\ timers.endGame > 0
    /\ Commit([Begin("endGame") EXCEPT !.timers.endGame = @ - 1, !.game.stopped = TRUE])
    /\ UNCHANGED <<clock, ticksLeft, callsLeft>>

\* The tick callback: it takes tickTime milliseconds.  A stopped game returns at
\* once and schedules no further tick.
TickCallback(tickTime, faults) ==
    /\ timers.tick
    /\ \E positions \in PhysicsOutcomes, movedLoot \in SUBSET game.loot,
          flight \in BulletOutcomes :
          LET s0 == [Begin("tick") EXCEPT !.game.now = clock, !.timers.tick = FALSE,
                                          !.out.faults = faults] IN
          IF game.stopped THEN Commit(s0)
          ELSE Commit(TickBody(s0, tickTime, positions, movedLoot, flight))
    /\ clock' = clock + tickTime
    /\ UNCHANGED callsLeft

\* A tick of a run that takes a bounded number of ticks.
TickWith(tickTime, faults) ==
    /\ ticksLeft > 0
    /\ TickCallback(tickTime, faults)
    /\ ticksLeft' = ticksLeft - 1

\* A tick of a run in which the ticks keep running, and none of its packets
\* fails; ticksLeft is not a budget there, it alternates between 0 and 1 with
\* every tick callback that runs.
TickOn(tickTime) ==
    /\ TickCallback(tickTime, [i \in Players |-> "none"])
    /\ ticksLeft' = (ticksLeft + 1) % 2

\* The step of the tick callback in such a run, as far as the timer and
\* ticksLeft show it: the timer of the tick is set and the callback runs.
TickTimerRuns == timers.tick /\ ticksLeft' = (ticksLeft + 1) % 2

\* The step of the endGame callback, as far as the timers show it.
EndGameTimerRuns == timers.endGame > 0 /\ timers' = [timers EXCEPT !.endGame = @ - 1]

\* A tick in which no packet fails.
Tick(tickTime) == TickWith(tickTime, [i \in Players |-> "none"])

\* A damage() call from a caller outside the model (an explosion, a bullet's
\* damage record, a healing item): any amount, with or without a source.
DamageCall(i, amount, source) ==
    /\ callsLeft > 0
    /\ players[i].joined
    /\ Commit(CallDamage(Begin("damage"), i, amount, source))
    /\ callsLeft' = callsLeft - 1
    /\ UNCHANGED <<clock, ticksLeft>>

\* Game.removeLoot, called when a loot item has been picked up whole.
RemoveLoot(o) ==
    /\ o \in game.loot
    /\ Commit(RemoveObject([Begin("removeLoot") EXCEPT
                                !.game.loot = @ \ {o},
                                !.game.dynamicObjects = @ \ {o}], o))
    /\ UNCHANGED <<clock, ticksLeft, callsLeft>>

\* The inventory of a living player comes to hold an item.
PickUp(i) ==
    /\ players[i].joined /\ ~players[i].dead /\ players[i].items = 0
    /\ Commit([Begin("pickUp") EXCEPT !.players[i].items = 1])
    /\ UNCHANGED <<clock, ticksLeft, callsLeft>>

\* Player.give: the player comes to hold a gun whose bullets do the damage, and
\* makes it its active item.
GiveGun(i, damage) ==
    /\ players[i].joined /\ ~players[i].dead /\ players[i].activeItem = "fists"
    /\ Commit([Begin("give") EXCEPT !.players[i].activeItem = "gun",
                                    !.players[i].ballistics = [damage |-> damage]])
    /\ UNCHANGED <<clock, ticksLeft, callsLeft>>

\* The zoom setter, called when the player's scope changes.
SetZoom(i, zoom) ==
    /\ players[i].joined /\ players[i].zoom # zoom
    /\ Commit([Begin("zoom") EXCEPT !.players[i].zoom = zoom])
    /\ UNCHANGED <<clock, ticksLeft, callsLeft>>

\* updateVisibleObjects() called on a player that has joined.
UpdateView(i) ==
    /\ players[i].joined
    /\ Commit(UpdateVisibleObjects([Begin("updateVisibleObjects") EXCEPT !.out.caller = i], i))
    /\ UNCHANGED <<clock, ticksLeft, callsLeft>>

\* A call on the bit stream, or of the map generator: only out changes.
Codec(op, codec) ==
    /\ out' = [out EXCEPT !.handler = op, !.codec = [codec EXCEPT !.op = op]]
    /\ UNCHANGED <<game, players, timers, clock, ticksLeft, callsLeft>>

\* writeFloat(value, min, max, bitCount) on an empty stream.
WriteFloatCall ==
    LET c == out.codec IN
    /\ c.op = "none"
    /\ Codec("writeFloat",
             [c EXCEPT !.stream = WriteFloat(@, c.value, c.min, c.max, c.bitCount)])

\* readFloat(min, max, bitCount) on the stream writeFloat has written.
ReadFloatCall ==
    LET c == out.codec IN
    /\ c.op = "writeFloat"
    /\ Codec("readFloat",
             [c EXCEPT !.code = ReadBits(c.stream, c.bitCount),
                       !.result = ReadFloat(c.stream, c.min, c.max, c.bitCount),
                       !.stream = Advance(@, c.bitCount)])

\* generateObstacles for one obstacle whose definition has the rotation mode.
GenerateObstacle ==
    LET c == out.codec
        made == ObstacleRotation(c.mode, c.draw)
    IN /\ c.op = "none"
       /\ Codec("generateObstacles",
                [c EXCEPT !.threw = made.threw,
                          !.placed = ~made.threw,
                          !.value = IF made.threw THEN 0 ELSE made.rotation[1]])

\* The obstacle placed is serialized: writeObstacleRotation(rotation, mode).
WriteObstacleRotationCall ==
    LET c == out.codec IN
    /\ c.op = "generateObstacles" /\ c.placed
    /\ Codec("writeObstacleRotation",
             [c EXCEPT !.stream = WriteObstacleRotation(@, c.value, c.mode)])

\* The client reads it: readObstacleRotation(mode).
ReadObstacleRotationCall ==
    LET c == out.codec IN
    /\ c.op = "writeObstacleRotation"
    /\ Codec("readObstacleRotation",
             [c EXCEPT !.result = ReadObstacleRotation(c.stream, c.mode),
                       !.stream = Advance(@, ObstacleRotationBits(c.mode))])

\* The write method of the pair on an empty stream.
WriteTypedCall ==
    LET c == out.codec IN
    /\ c.op = "none" /\ c.pair # "none"
    /\ Codec("write", [c EXCEPT !.stream = WriteTyped(@, c.pair, c.written, c.mode)])

\* The read method of the pair on the stream its write method has written.
ReadTypedCall ==
    LET c == out.codec
        taken == ReadTyped(c.stream, c.pair, c.mode)
    IN /\ c.op = "write"
       /\ Codec("read", [c EXCEPT !.read = taken.value, !.stream = taken.stream])

\* The physics world asks whether the fixtures of two objects of the game
\* should collide.
ShouldCollideCall(thisObject, thatObject) ==
    /\ {thisObject, thatObject} \subseteq game.dynamicObjects \cup Boundaries
    /\ Commit([Begin("shouldCollide") EXCEPT
                  !.out.collide = [this |-> thisObject, that |-> thatObject,
                                   result |-> ShouldCollide(thisObject, thatObject)]])
    /\ UNCHANGED <<clock, ticksLeft, callsLeft>>

\* The adrenaline setter, called by a consumable.
Boost(i, adrenaline) ==
    /\ players[i].joined /\ ~players[i].dead /\ players[i].adrenaline = 0
    /\ Commit([Begin("boost") EXCEPT !.players[i].adrenaline = SetAdrenaline(adrenaline)])
    /\ UNCHANGED <<clock, ticksLeft, callsLeft>>

\* ----------------------------------------------------------- specifications

\* The points randomPointInsideCircle may return for the next gas circle.
GasPositions == {<<GasCentre, GasCentre>>}

\* The match from the constructed server on: connections, joins, movement
\* input, disconnects, the timers and the ticks; every tick takes less than a
\* millisecond.
Init == Start(AfterIdleTicks(Constructed, GasDamagePeriod - 1))

Next ==
    \/ \E i \in Players, position \in Positions : AddPlayer(i, position)
    \/ \E i \in Players, gasPosition \in GasPositions : ActivatePlayer(i, FALSE, gasPosition)
    \/ \E i \in Players : \E packet \in MovementPackets(players[i]) : Input(i, packet)
    \/ \E i \in Players : RemovePlayer(i)
    \/ \E i \in Players : InvulnerabilityTimeout(i)
    \/ EndGame
    \/ Tick(0)

Spec == Init /\ [][Next]_vars

\* The match once every player has joined, wherever each has spawned: the
\* timers, the disconnect of the last player and the ticks.
MatchInit ==
    \E position \in [Players -> Positions] :
        Start(JoinAll(AfterIdleTicks(Constructed, GasDamagePeriod - 1), position))

MatchNext ==
    \/ \E i \in Players : InvulnerabilityTimeout(i)
    \/ RemovePlayer(NumPlayers)
    \/ \E gasPosition \in GasPositions : AdvanceGasTimeout(gasPosition)
    \/ EndGame
    \/ Tick(0)

SpecMatch == MatchInit /\ [][MatchNext]_vars

\* The scheduler: every player has joined and the ticks take any measured time
\* up to MaxTickTime milliseconds.
SchedInit == Start(JoinAll(AfterIdleTicks(Constructed, 0), AtCentre))

SchedNext == \E tickTime \in 0..MaxTickTime : Tick(tickTime)

SpecSched == SchedInit /\ [][SchedNext]_vars

\* damage() under any caller: every player has joined at the centre of the map,
\* damage() is called on player 1 (the players are alike) with any of
\* DamageAmounts (a healing, a scratch that one tick regenerates, a lethal
\* blow) and any source, a consumable raises its adrenaline, its invulnerability
\* expires and the ticks regenerate.
DamageAmounts == {-30000, 30, MaxHealth}

Sources == {NoSource} \cup {SourcePlayer(j) : j \in Players}

DamageInit ==
    Start(JoinAll(AfterIdleTicks(Constructed, GasDamagePeriod - 1), AtCentre))

DamageNext ==
    \/ \E amount \in DamageAmounts, source \in Sources : DamageCall(1, amount, source)
    \/ Boost(1, MaxAdrenaline)
    \/ InvulnerabilityTimeout(1)
    \/ Tick(0)

SpecDamage == DamageInit /\ [][DamageNext]_vars

\* The gas on the wall clock: every player has joined at the centre of the map,
\* time passes in steps of ElapseSteps milliseconds, the advanceGas timer runs
\* once its delay has passed and a tick runs whenever the event loop gets to it.
ElapseSteps == {505}

GasInit ==
    Start(JoinAll(AfterIdleTicks(Constructed, GasDamagePeriod - 1), AtCentre))

GasNext ==
    \/ \E ms \in ElapseSteps : Elapse(ms)
    \/ \E gasPosition \in GasPositions : AdvanceGasDue(gasPosition)
    \/ Tick(0)

SpecGas == GasInit /\ [][GasNext]_vars

\* The life of the objects: players connect, join, pick items up, lose their
\* invulnerability, die of a lethal damage() call and disconnect, in any
\* order, and the loot they drop is picked up.
IdsInit == Start(AfterIdleTicks(Constructed, 0))

IdsNext ==
    \/ \E i \in Players : AddPlayer(i, <<GasCentre, GasCentre>>)
    \/ \E i \in Players, gasPosition \in GasPositions : ActivatePlayer(i, FALSE, gasPosition)
    \/ \E i \in Players : PickUp(i)
    \/ \E i \in Players : InvulnerabilityTimeout(i)
    \/ \E i \in Players : DamageCall(i, MaxHealth, NoSource)
    \/ \E i \in Players : RemovePlayer(i)
    \/ \E o \in game.loot : RemoveLoot(o)

SpecIds == IdsInit /\ [][IdsNext]_vars

\* The views: every player has joined, each at any of Positions; player 1's scope
\* changes its zoom, updateVisibleObjects() runs on any player at any moment and the
\* ticks send the update packets.
ViewInit ==
    \E position \in [Players -> Positions] :
        Start(JoinAll(AfterIdleTicks(Constructed, 0), position))

ViewNext ==
    \/ \E zoom \in SupportedZoomLevels : SetZoom(1, zoom)
    \/ \E i \in Players : UpdateView(i)
    \/ Tick(0)

SpecView == ViewInit /\ [][ViewNext]_vars

\* The views around a death: player 1 (the players are alike) changes its zoom,
\* loses its invulnerability and dies of a lethal damage() call, and
\* updateVisibleObjects() runs on any player at any moment.
ViewDeathNext ==
    \/ \E zoom \in SupportedZoomLevels : SetZoom(1, zoom)
    \/ \E i \in Players : UpdateView(i)
    \/ InvulnerabilityTimeout(1)
    \/ DamageCall(1, MaxHealth, NoSource)

SpecViewDeath == ViewInit /\ [][ViewDeathNext]_vars

\* The packets: every player has joined at the centre of the map; players
\* lose their invulnerability and disconnect, and in every tick the packets of
\* one of the players may fail in any of the ways of Faults.
FaultInit == Start(JoinAll(AfterIdleTicks(Constructed, 0), AtCentre))

FaultNext ==
    \/ \E i \in Players : InvulnerabilityTimeout(i)
    \/ \E i \in Players : RemovePlayer(i)
    \/ \E i \in Players, fault \in Faults :
          TickWith(0, [j \in Players |-> IF j = i THEN fault ELSE "none"])

SpecFaults == FaultInit /\ [][FaultNext]_vars

\* An obstacle from the map generator to the client: its definition has any of
\* RotationModes ("unknown" stands for every string that is not a mode), the
\* random generator gives any of Draws, and the rotation is generated, written
\* and read.
Draws == 0..MaxDraw

RotationInit ==
    \E mode \in RotationModes, draw \in Draws :
        Start([Constructed EXCEPT !.out.codec.mode = mode, !.out.codec.draw = draw])

RotationNext ==
    \/ GenerateObstacle
    \/ WriteObstacleRotationCall
    \/ ReadObstacleRotationCall

SpecRotation == RotationInit /\ [][RotationNext]_vars

\* A float through the stream: any value of FloatValues, any bounds min < max
\* of FloatBounds and any of BitCounts are written and read back.  The values
\* are on a grid of integers; the unit of the grid is arbitrary.
FloatValues == (-MaxFloat)..MaxFloat

FloatBounds == {<<-3, 5>>, <<0, 1>>, <<0, 4>>, <<2, 7>>}

BitCounts == {1, 2, 3, 8, 16, 32}

FloatInit ==
    \E value \in FloatValues, bounds \in FloatBounds, bitCount \in BitCounts :
        Start([Constructed EXCEPT !.out.codec.value = value,
                                  !.out.codec.min = bounds[1],
                                  !.out.codec.max = bounds[2],
                                  !.out.codec.bitCount = bitCount])

FloatNext ==
    \/ WriteFloatCall
    \/ ReadFloatCall

SpecFloat == FloatInit /\ [][FloatNext]_vars

\* The visibility trigger: every player has joined at the centre, player 1
\* sends movement packets, the last player may leave, and up to MaxMoves ticks
\* run, enough for the move counter to pass its threshold.
MovesInit == StartFor(JoinAll(AfterIdleTicks(Constructed, 0), AtCentre), MaxMoves)

MovesNext ==
    \/ \E packet \in MovementPackets(players[1]) : Input(1, packet)
    \/ RemovePlayer(NumPlayers)
    \/ Tick(0)

SpecMoves == MovesInit /\ [][MovesNext]_vars

\* The invulnerability of the players: every player has joined at the centre,
\* player 1 sends input packets (keys, opposite keys, a turn, an attack), the
\* last player may leave, the 5 s timers fire at any moment and the ticks run.
InvulnerableInit == Start(JoinAll(AfterIdleTicks(Constructed, 0), AtCentre))

InvulnerableNext ==
    \/ \E packet \in MovementPackets(players[1]) \cup AttackPackets(players[1]) :
          Input(1, packet)
    \/ \E i \in Players : InvulnerabilityTimeout(i)
    \/ RemovePlayer(NumPlayers)
    \/ Tick(0)

SpecInvulnerable == InvulnerableInit /\ [][InvulnerableNext]_vars

\* The bullets: every player has joined at the centre, players 1 and 2 are
\* given a gun and press the trigger, and up to MaxFlight ticks run; a bullet
\* flies one or two steps a tick and touches another player's body or a world
\* boundary, or nothing.
Gunners == {i \in Players : i <= 2}

BulletsInit == StartFor(JoinAll(AfterIdleTicks(Constructed, 0), AtCentre), MaxFlight)

BulletsNext ==
    \/ \E i \in Gunners : GiveGun(i, 10000)
    \/ \E i \in Gunners : \E packet \in AttackPackets(players[i]) : Input(i, packet)
    \/ Tick(0)

SpecBullets == BulletsInit /\ [][BulletsNext]_vars

\* The end of the match: every player has joined at the centre, so the match
\* has started; players disconnect, endGame runs once it is scheduled, and the
\* ticks keep running: the tick callback sets the timer of the next tick, and a
\* timer that is due runs.
OverNext ==
    \/ \E i \in Players : RemovePlayer(i)
    \/ EndGame
    \/ TickOn(0)

SpecOver ==
    /\ Start(JoinedAtCentre)
    /\ [][OverNext]_vars
    /\ WF_ticksLeft(TickTimerRuns)
    /\ WF_timers(EndGameTimerRuns)

\* The scopes: every player has joined, each at any of Positions; the scopes
\* change the zoom of any player and the ticks recompute the views and send the
\* update packets.
ZoomNext ==
    \/ \E i \in Players, zoom \in SupportedZoomLevels : SetZoom(i, zoom)
    \/ Tick(0)

SpecZoom == ViewInit /\ [][ZoomNext]_vars

\* The index of the static objects under everything that touches the players'
\* visible sets: player 1 has joined at either position; the last player
\* connects at either position, joins and disconnects, player 1 changes its
\* zoom, loses its invulnerability and dies, updateVisibleObjects() runs on any
\* joined player at any moment and the ticks run.
IndexSets == {IndexSet(zoom, position) : zoom \in SupportedZoomLevels, position \in Positions}

IndexInit ==
    \E position \in Positions, gasPosition \in GasPositions :
        Start(ActivatePlayerAs(AddPlayerAt(AfterIdleTicks(Constructed, 0), 1, position),
                               1, FALSE, gasPosition))

IndexNext ==
    \/ \E position \in Positions : AddPlayer(NumPlayers, position)
    \/ \E gasPosition \in GasPositions : ActivatePlayer(NumPlayers, FALSE, gasPosition)
    \/ \E zoom \in SupportedZoomLevels : SetZoom(1, zoom)
    \/ \E i \in Players : UpdateView(i)
    \/ InvulnerabilityTimeout(1)
    \/ DamageCall(1, MaxHealth, NoSource)
    \/ RemovePlayer(NumPlayers)
    \/ Tick(0)

SpecIndex == IndexInit /\ [][IndexNext]_vars

\* The removals: every player has joined, each at any of Positions, and the next
\* tick is a damage tick of the gas, in which a vulnerable player on the circle
\* dies.  Between the ticks player 1 picks an item up, loses its
\* invulnerability and dies of a lethal damage() call, the last player
\* disconnects, and dropped loot is picked up.
RemovalInit ==
    \E position \in [Players -> Positions] :
        Start(JoinAll(AfterIdleTicks(Constructed, GasDamagePeriod - 1), position))

RemovalNext ==
    \/ PickUp(1)
    \/ \E i \in Players : InvulnerabilityTimeout(i)
    \/ DamageCall(1, MaxHealth, NoSource)
    \/ RemovePlayer(NumPlayers)
    \/ \E o \in game.loot : RemoveLoot(o)
    \/ Tick(0)

SpecRemoval == RemovalInit /\ [][RemovalNext]_vars

\* The start of the match: the players connect at the centre, join and
\* disconnect, the stage timers of the gas run and the ticks run.
StartInit == Start(AfterIdleTicks(Constructed, 0))

StartNext ==
    \/ \E i \in Players : AddPlayer(i, <<GasCentre, GasCentre>>)
    \/ \E i \in Players, gasPosition \in GasPositions : ActivatePlayer(i, FALSE, gasPosition)
    \/ \E i \in Players : RemovePlayer(i)
    \/ \E gasPosition \in GasPositions : AdvanceGasTimeout(gasPosition)
    \/ Tick(0)

SpecStart == StartInit /\ [][StartNext]_vars

\* The gas through all its stages: the match has started, the stage timers run
\* when they are due, the ticks run.  SpawnCandidates are the positions
\* getRandomPositionFor can return to addPlayer.
MaxGasClock == 9000
StageSteps == {1000}
SpawnCandidates == Positions

SpawnNext ==
    \/ \E ms \in StageSteps : ElapseUntil(ms, MaxGasClock)
    \/ \E gasPosition \in GasPositions : AdvanceGasDue(gasPosition)
    \/ Tick(0)

SpecSpawn == GasInit /\ [][SpawnNext]_vars

\* A player on a mobile device swings its fists: it presses and releases the
\* attack button, time passes, the ticks and the timers of the swings run.
\* A timer runs when it is due: time does not pass beyond a pending one.
MaxSwingClock == 1650
SwingSteps == {40, 50, 210}

MeleePackets == {InputPacket(NoKeys, TRUE, FALSE), InputPacket(NoKeys, FALSE, FALSE)}

\* The timers of the melee item of player i that are pending.
MeleeTimersOf(i) ==
    {timer \in timers.swing \cup timers.refire : timer.owner = i}

OnMobile(s) ==
    [s EXCEPT !.players = [i \in Players |-> [@[i] EXCEPT !.isMobile = TRUE]]]

MeleeInit == Start(OnMobile(JoinedAtCentre))

MeleeElapse(ms) ==
    /\ clock + ms <= MaxSwingClock
    /\ \A timer \in timers.swing \cup timers.refire : clock + ms <= timer.due
    /\ Elapse(ms)

MeleeNext ==
    \/ \E packet \in MeleePackets : Input(1, packet)
    \/ \E ms \in SwingSteps : MeleeElapse(ms)
    \/ \E skipAttackCheck \in BOOLEAN : Swing(1, skipAttackCheck, NoSource)
    \/ Refire(1)
    \/ Tick(0)

SpecMelee == MeleeInit /\ [][MeleeNext]_vars

\* The hits: every player has joined at the centre, players 1 and 2 are given a
\* gun whose bullet wounds or one whose bullet kills, and press the trigger
\* (which ends their invulnerability); up to MaxFlight ticks run.
GunDamages == {10000, MaxHealth}

HitsNext ==
    \/ \E i \in Gunners : \E damage \in GunDamages : GiveGun(i, damage)
    \/ \E i \in Gunners : \E packet \in AttackPackets(players[i]) : Input(i, packet)
    \/ Tick(0)

SpecHits == BulletsInit /\ [][HitsNext]_vars

\* The collision filter: the players have joined, any of them dies of a lethal
\* damage() call and leaves a death marker, and shouldCollide is asked for any
\* two of the players, death markers and world boundaries of the game.
CollideInit == Start(JoinAll(Constructed, AtCentre))

CollideObjects ==
    {PlayerObj(i) : i \in Players} \cup {MarkerObj(i) : i \in Players} \cup Boundaries

CollideNext ==
    \/ \E i \in Players : InvulnerabilityTimeout(i)
    \/ \E i \in Players : DamageCall(i, MaxHealth, NoSource)
    \/ \E thisObject \in CollideObjects, thatObject \in CollideObjects :
          ShouldCollideCall(thisObject, thatObject)

SpecCollide == CollideInit /\ [][CollideNext]_vars

\* A typed field through the stream: a value of the pair's type is written on
\* an empty stream and read back.  Object types are those the constructors
\* make, positions lie on the map, obstacle rotations are those the map
\* generator draws, and names are short strings of two letters.
TypedNames == {<<>>, <<65>>, <<66>>, <<65, 66>>, <<66, 65>>}

TypedColors == {<<>>, <<35, 102>>}

TypedValues(pair) ==
    CASE pair = "packetType" -> {[x |-> Num(n), mode |-> "none"] : n \in 0..(2 ^ PacketTypeBits - 1)}
      [] pair = "objectType" ->
            {[x |-> CategoryOnly(category), mode |-> "none"] : category \in {0, 3}}
            \cup {[x |-> FromNumber(category, n), mode |-> "none"] :
                      category \in {1, 2, 4}, n \in 0..3}
      [] pair = "objectID" ->
            {[x |-> Num(n), mode |-> "none"] : n \in {0, 1, 2, 2 ^ ObjectIDBits - 1}}
      [] pair = "variation" -> {[x |-> Num(n), mode |-> "none"] : n \in 0..(2 ^ VariationBits - 1)}
      [] pair = "position" ->
            {[x |-> [kind |-> "vector", x |-> Num(x), y |-> Num(y)], mode |-> "none"] :
                x \in {0, MapWidth \div 2, MapWidth}, y \in {0, MapHeight \div 2, MapHeight}}
      [] pair = "obstacleRotation" ->
            {[x |-> Num(ObstacleRotation(mode, draw).rotation[1]), mode |-> mode] :
                mode \in RotationModes, draw \in Draws}
      [] pair = "playerNameWithColor" ->
            {[x |-> [kind |-> "nameWithColor", name |-> name, isDev |-> isDev, color |-> color],
              mode |-> "none"] :
                name \in TypedNames, isDev \in BOOLEAN, color \in TypedColors}

TypedInit ==
    \E pair \in TypedPairs : \E drawn \in TypedValues(pair) :
        Start([Constructed EXCEPT !.out.codec.pair = pair,
                                  !.out.codec.written = drawn.x,
                                  !.out.codec.mode = drawn.mode])

TypedNext ==
    \/ WriteTypedCall
    \/ ReadTypedCall

SpecTyped == TypedInit /\ [][TypedNext]_vars

\* The full data of a death marker through the stream: the server writes it on
\* an empty stream and the client reads it.  The names are short, of the
\* greatest length and longer, the colours likewise.
MarkerNames == TypedNames \cup {[k \in 1..PlayerNameMaxLength |-> 65], [k \in 1..(PlayerNameMaxLength + 1) |-> 66]}

MarkerColors == TypedColors \cup {[k \in 1..10 |-> 102], [k \in 1..11 |-> 101]}

MarkerInit ==
    \E name \in MarkerNames, isDev \in BOOLEAN, color \in MarkerColors, isNew \in BOOLEAN :
        Start([Constructed EXCEPT
                  !.out.codec.pair = "deathMarker",
                  !.out.codec.written = [kind |-> "deathMarker", name |-> name, isDev |-> isDev,
                                         color |-> color, isNew |-> isNew]])

SpecMarker == MarkerInit /\ [][TypedNext]_vars

\* The dirty-set projection on its own: player 1 has joined, sees any set of
\* ProjectObjects and has no dirty object of its own, the game's full and
\* partial dirty sets are any sets of ProjectObjects, its deleted set any set
\* of DeletedObjects, and the projection of the second loop runs for player 1.
ProjectObjects == {PlayerObj(1), PlayerObj(2), ObstacleObj(1), LootObj(2), MarkerObj(2)}

DeletedObjects == {PlayerObj(1), MarkerObj(2)}

ProjectInit ==
    \E V \in SUBSET ProjectObjects, F \in SUBSET ProjectObjects,
       P \in SUBSET ProjectObjects, D \in SUBSET DeletedObjects :
        Start([JoinedAtCentre EXCEPT
                  !.players[1].visibleObjects = V,
                  !.players[1].fullDirtyObjects = {},
                  !.players[1].partialDirtyObjects = {},
                  !.players[1].deletedObjects = {},
                  !.game.fullDirtyObjects = F,
                  !.game.partialDirtyObjects = P,
                  !.game.deletedObjects = D])

Project(i) ==
    /\ out.handler # "project"
    /\ Commit(ProjectDirty(Begin("project"), i))
    /\ UNCHANGED <<clock, ticksLeft, callsLeft>>

ProjectNext == Project(1)

SpecProject == ProjectInit /\ [][ProjectNext]_vars

\* ------------------------------------------------------------------ claims

\* C1: at the end of every tick the delay handed to the next tick is
\* max(0, 30 - tickTime) for the measured duration tickTime of the tick just
\* run: never negative, and 0 whenever the tick took 30 ms or longer.
C1_NextDelay ==
    (out.handler = "tick" /\ ~game.stopped) =>
        LET tickTime == clock - game.now IN
        /\ game.delay = (IF 30 - tickTime > 0 THEN 30 - tickTime ELSE 0)
        /\ game.delay >= 0
        /\ (tickTime >= 30 => game.delay = 0)

C1_Witness ==
    /\ out.handler = "tick" /\ ~game.stopped
    /\ clock - game.now > 30
    /\ game.delay = 0

TickScopedCleared ==
    /\ game.fullDirtyObjects = {} /\ game.partialDirtyObjects = {} /\ game.deletedObjects = {}
    /\ game.newBullets = {} /\ game.deletedBulletIDs = {} /\ game.explosions = {}
    /\ game.killFeedMessages = {}
    /\ ~game.aliveCountDirty /\ ~game.gasDirty /\ ~game.gasPercentageDirty
    /\ ~game.updateObjects

C3_Projection ==
    out.handler = "project" =>
        LET V == players[1].visibleObjects IN
        /\ players[1].fullDirtyObjects = game.fullDirtyObjects \cap V
        /\ players[1].partialDirtyObjects = (game.partialDirtyObjects \cap V) \ game.fullDirtyObjects
        /\ players[1].deletedObjects = (game.deletedObjects \cap V) \ {PlayerObj(1)}

\* The scenario of the claim, with A the obstacle, B player 2, C the loot and D
\* the death marker.
C3_Witness ==
    /\ out.handler = "project"
    /\ players[1].visibleObjects = {ObstacleObj(1), PlayerObj(2)}
    /\ game.fullDirtyObjects = {PlayerObj(2), LootObj(2)}
    /\ game.partialDirtyObjects = {ObstacleObj(1)}
    /\ game.deletedObjects = {MarkerObj(2)}
    /\ players[1].fullDirtyObjects = {PlayerObj(2)}
    /\ players[1].partialDirtyObjects = {ObstacleObj(1)}
    /\ players[1].deletedObjects = {}

\* C4: in the UpdatePacket built for a player no object is in both the
\* player's fullDirtyObjects and its partialDirtyObjects.
C4_FullWinsOverPartial ==
    \A i \in Players :
        out.lastUpdate[i].sent => out.lastUpdate[i].full \cap out.lastUpdate[i].partial = {}

\* C5: every player's health is within [0, 100].
C5_HealthInRange ==
    \A i \in Players : players[i].health >= 0 /\ players[i].health <= MaxHealth

\* A damaged player has regenerated up to the cap in a tick.
C5_Witness ==
    /\ out.handler = "tick"
    /\ \E i \in Players :
          /\ players[i].damageTaken > 0 /\ players[i].adrenaline > 0
          /\ players[i].health = MaxHealth

\* What the death branch leaves behind.
DeathBranchDone(p, g, i) ==
    /\ p[i].health = 0 /\ ~p[i].bodyAlive
    /\ i \notin SeqToSet(g.livingPlayers)
    /\ PlayerObj(i) \notin g.dynamicObjects
    /\ MarkerObj(i) \in g.dynamicObjects
    /\ p[i].items = 0

\* C6: the death branch runs in the damage() call in which health first
\* reaches 0 and never again; a player once dead is never alive again.
C6_DeathOnce ==
    [][\A i \in Players :
          /\ players[i].dead => players'[i].dead
          /\ players[i].dead => out'.deaths[i] = out.deaths[i]
          /\ out'.deaths[i] = (IF players'[i].dead THEN 1 ELSE 0)
          /\ (players'[i].joined /\ players'[i].health = 0) => players'[i].dead
          /\ players'[i].dead => DeathBranchDone(players', game', i)]_vars

\* A dead player that is not invulnerable has taken another damage() call.
C6_Witness ==
    /\ out.handler = "damage"
    /\ out.deathLog = <<>>
    /\ \E c \in out.damageCalls :
          ~c.invulnerable /\ players[c.target].dead /\ out.deaths[c.target] = 1

\* C7: damage() on a player whose invulnerable flag is true changes nothing.
C7_InvulnerableUnchanged ==
    \A i \in Players, amount \in DamageAmounts, source \in Sources :
        players[i].invulnerable => Damage(State, i, amount, source) = State

\* damage() has just been called on an invulnerable player.
C7_Witness ==
    /\ out.handler = "damage"
    /\ \E c \in out.damageCalls : c.invulnerable /\ players[c.target].invulnerable

DeathStepsOfCode ==
    <<"disableIntent", "snapshotPosition", "destroyBody", "releaseLoot", "spawnMarker",
      "decideGameOver">>

DeathStepsAsStated ==
    <<"disableIntent", "snapshotPosition", "killerAttribution", "destroyBody", "releaseLoot",
      "spawnMarker", "decideGameOver">>

HasKillerAttribution == "killerAttribution" \in SeqToSet(out.deathLog)

\* C8 (as amended): when a player dies, damage() notifies the killer
\* attribution first (when the source is a player), then disables the
\* movement/attack intent, snapshots the death position, destroys the physics
\* body, releases the loot, spawns the death marker and only then decides on
\* game-over.
C8_DeathStepOrder ==
    out.deathLog # <<>> =>
        out.deathLog = IF HasKillerAttribution
                       THEN <<"killerAttribution">> \o DeathStepsOfCode
                       ELSE DeathStepsOfCode

C8_Witness ==
    /\ out.handler = "damage"
    /\ out.deathLog = <<"killerAttribution">> \o DeathStepsOfCode

\* C8 as stated: intent, snapshot, killer attribution, body, loot, marker,
\* game-over.
C8_DeathStepOrderAsStated ==
    out.deathLog # <<>> =>
        out.deathLog = IF HasKillerAttribution THEN DeathStepsAsStated ELSE DeathStepsOfCode

\* C9: over a whole match the endGame callback is scheduled at most once.
C9_EndGameScheduledOnce == out.endGames <= 1

\* The positions isInGas is asked about: on the first circle of the gas, just
\* inside and just outside it, and the positions of the bodies.
GasProbes ==
    Positions \cup {<<499, 360>>, <<501, 360>>, <<360, 220>>, <<444, 472>>, <<420, 360>>, <<421, 360>>}

OnOrBeyondCircle(position) ==
    DistanceSquared(position, game.gas.currentPosition)
        >= game.gas.currentRadius * game.gas.currentRadius

DamagedThisHandler == {c.target : c \in out.damageCalls}

\* C10 (as amended): isInGas(position) is true if and only if the squared
\* distance from position to gas.currentPosition is at least gas.currentRadius
\* squared; a position exactly on the circle is in the gas, and the tick that
\* deals the gas damage calls damage() on exactly the living players there.
C10_InGasIffOnOrBeyond ==
    /\ \A position \in GasProbes : IsInGas(game, position) <=> OnOrBeyondCircle(position)
    /\ (out.handler = "tick" /\ ~game.stopped /\ game.gas.ticksSinceLastDamage = 0) =>
          \A i \in SeqToSet(game.livingPlayers) \cup DamagedThisHandler :
              i \in DamagedThisHandler <=> OnOrBeyondCircle(players[i].position)

\* A player standing exactly on the circle has taken the gas damage.
C10_Witness ==
    /\ out.handler = "tick"
    /\ \E i \in DamagedThisHandler :
          DistanceSquared(players[i].position, game.gas.currentPosition)
              = game.gas.currentRadius * game.gas.currentRadius

\* C10 as stated: in the gas if and only if the squared distance exceeds the
\* squared radius.
C10_InGasIffBeyond ==
    \A position \in GasProbes :
        IsInGas(game, position) <=>
            DistanceSquared(position, game.gas.currentPosition)
                > game.gas.currentRadius * game.gas.currentRadius

\* C11: along every run in which ticks interleave with the advanceGas timer
\* callbacks, gas.currentRadius never increases from one state to the next.
C11_RadiusNeverIncreases ==
    [][game'.gas.currentRadius <= game.gas.currentRadius]_vars

\* C12: while a gas stage is active (Waiting or Advancing), gas.percentage is a
\* number within [0, 1]: also in a tick that runs after the stage's duration
\* has elapsed and before the advanceGas callback, and in a stage of duration 0.
C12_PercentageInUnitRange ==
    game.gas.state \in {"Waiting", "Advancing"} =>
        /\ game.gas.percentage.kind = "num"
        /\ game.gas.percentage.v >= 0
        /\ game.gas.percentage.v <= 1000

\* The objects the game holds: the static ones and the dynamic ones.
HeldObjects == StaticObjects \cup game.dynamicObjects

\* C13: in every state reached by joins, activations, deaths, disconnects, loot
\* spawns and removals and death-marker creations, no two objects that are in
\* staticObjects or dynamicObjects hold the same id.
C13_HeldIdsDistinct ==
    \A o1 \in HeldObjects, o2 \in HeldObjects :
        o1 # o2 => game.objectID[o1] # game.objectID[o2]

\* C15: whenever an object enters a player's visibleObjects, through the
\* player's own updateVisibleObjects or another player's symmetric add, it is
\* full-dirty for that player: it is in the player's fullDirtyObjects, or the
\* update packet the same tick has sent to the player carries it as full.
C15_EnteringIsFullDirty ==
    [][\A i \in Players :
          \A o \in players'[i].visibleObjects \ players[i].visibleObjects :
              \/ o \in players'[i].fullDirtyObjects
              \/ out'.lastUpdate[i].sent /\ o \in out'.lastUpdate[i].full]_vars

\* An object that is marked deleted for a player has entered its view again,
\* and a player is in the view of another whose own window does not hold it.
C15_Witness ==
    /\ out.handler = "updateVisibleObjects"
    /\ \E i \in Players :
          \E o \in players[i].deletedObjects :
              o \in players[i].visibleObjects /\ o \in players[i].fullDirtyObjects
    /\ \E i \in Players, j \in Players :
          /\ PlayerObj(i) \in players[j].visibleObjects
          /\ ~InCullWindow(players[j], players[i].position)

\* C16: after a living player P has run updateVisibleObjects(), every other
\* player O of dynamicObjects strictly inside P's cull window has P in its
\* visibleObjects, and P is in O.fullDirtyObjects if this call has added it; a
\* dead P changes no other player's visible set.
C16_SymmetricVisibility ==
    [][\A i \in Players :
          (out'.handler = "updateVisibleObjects" /\ out'.caller = i) =>
              \A j \in Players \ {i} :
                  IF players[i].dead
                  THEN players'[j].visibleObjects = players[j].visibleObjects
                  ELSE (/\ PlayerObj(j) \in game.dynamicObjects
                        /\ InCullWindow(players[i], players[j].position)) =>
                           /\ PlayerObj(i) \in players'[j].visibleObjects
                           /\ PlayerObj(i) \notin players[j].visibleObjects =>
                                 PlayerObj(i) \in players'[j].fullDirtyObjects]_vars

\* A living player with the wide zoom has run updateVisibleObjects() and has
\* been added to the view of a player that its window holds and whose own
\* window does not hold it.
C16_Witness ==
    /\ out.handler = "updateVisibleObjects"
    /\ \E i \in Players, j \in Players :
          /\ out.caller = i /\ i # j /\ ~players[i].dead
          /\ PlayerObj(j) \in game.dynamicObjects
          /\ InCullWindow(players[i], players[j].position)
          /\ ~InCullWindow(players[j], players[i].position)
          /\ PlayerObj(i) \in players[j].visibleObjects
          /\ PlayerObj(i) \in players[j].fullDirtyObjects

\* C17: when serialize() of a packet for a player throws, nothing is sent on
\* that player's socket for that packet: every call of socket.send() carries a
\* packet whose serialization has completed.
C17_NothingSentAfterSerializeError ==
    \A i \in Players : \A data \in out.socket[i] : data.complete

\* The packet has been serialized whole and handed to the player's socket.
Delivered(sent, packet) ==
    [packet |-> packet, complete |-> TRUE, delivered |-> TRUE] \in sent

\* C18: a serialization error or a socket send error for one player never
\* aborts the tick: every other joined connected player still gets the
\* kill-feed packets and its update packet in that tick, the tick-scoped sets
\* are cleared and the next tick is scheduled.
C18_FaultIsolation ==
    [][(out'.handler = "tick" /\ ~game.stopped) =>
          /\ \A j \in Players :
                (j \in SeqToSet(game.connectedPlayers) /\ players[j].joined
                    /\ out'.faults[j] = "none") =>
                   /\ Delivered(out'.socket[j], [type |-> "update", message |-> <<>>])
                   /\ out'.lastUpdate[j].sent
                   /\ \A message \in game.killFeedMessages :
                         Delivered(out'.socket[j], [type |-> "killFeed", message |-> message])
                   /\ \A k \in Players : \A data \in out'.socket[k] :
                         Delivered(out'.socket[j], data.packet)
          /\ game'.fullDirtyObjects = {} /\ game'.partialDirtyObjects = {}
          /\ game'.deletedObjects = {} /\ game'.killFeedMessages = {}
          /\ ~game'.updateObjects /\ ~game'.aliveCountDirty
          /\ timers'.tick]_vars

\* A tick has run in which the packets of one player failed and another
\* player got a kill-feed packet and its update packet.
C18_Witness ==
    /\ out.handler = "tick"
    /\ timers.tick
    /\ \E i \in Players, j \in Players :
          /\ out.faults[i] # "none" /\ out.socket[i] # {}
          /\ out.faults[j] = "none"
          /\ \E data \in out.socket[j] :
                data.packet.type = "killFeed" /\ data.complete /\ data.delivered
          /\ Delivered(out.socket[j], [type |-> "update", message |-> <<>>])

\* C19: an unknown obstacle rotation mode is fatal: generateObstacles raises an
\* error instead of placing the obstacle, and writeObstacleRotation and
\* readObstacleRotation fail instead of writing nothing or returning 0.
C19_UnknownModeIsFatal ==
    (/\ out.codec.op \in {"generateObstacles", "writeObstacleRotation", "readObstacleRotation"}
     /\ out.codec.mode \notin {"full", "limited", "binary", "none"}) =>
        out.codec.threw /\ ~out.codec.placed

\* C20: writeFloat(v, min, max, b) followed by readFloat(min, max, b) returns a
\* number within (max - min) / (2^b - 1) of v clamped to [min, max], and the
\* code written is an integer of [0, 2^b - 1], for every bit count b >= 1.
C20_RoundTripBound ==
    out.codec.op = "readFloat" =>
        LET c == out.codec
            v == Clamp(c.value, c.min, c.max)
            error == c.result.num - v * c.result.den
        IN /\ c.code >= 0
           /\ c.bitCount <= 30 => c.code <= 2 ^ c.bitCount - 1
           /\ c.result.kind = "num"
           /\ c.result.den > 0
           /\ (IF error >= 0 THEN error ELSE -error) * (2 ^ c.bitCount - 1)
                  <= (c.max - c.min) * c.result.den

\* Two values of the stream's callers are the same value: numbers are compared
\* as fractions, vectors by their coordinates, everything else as it is.
SameNumber(a, b) == a.kind = "num" /\ b.kind = "num" /\ a.num * b.den = b.num * a.den

SameValue(a, b) ==
    /\ a.kind = b.kind
    /\ CASE a.kind = "num" -> SameNumber(a, b)
         [] a.kind = "vector" -> SameNumber(a.x, b.x) /\ SameNumber(a.y, b.y)
         [] OTHER -> a = b

C21_RawPairsRoundTrip ==
    (out.codec.op = "read"
        /\ out.codec.pair \in {"packetType", "objectType", "objectID", "variation"}) =>
        SameValue(out.codec.written, out.codec.read)

\* C22: shouldCollide of A's fixture with B's is true if and only if A has an
\* is.<kind> flag set and B.collidesWith.<kind> is true for that same kind, and
\* false when A has no kind; from both sides, two players do not collide, a
\* player and a world boundary do, and a death marker collides with nothing
\* in either direction.
C22_CollisionFilter ==
    out.handler = "shouldCollide" =>
        LET a == out.collide.this
            b == out.collide.that
            kinds == SeqToSet(FilterKinds)
        IN /\ out.collide.result =
                  (\E kind \in kinds :
                      CollisionFilters(a).is[kind] /\ CollisionFilters(b).collidesWith[kind])
           /\ (a[1] = "player" /\ b[1] = "player") => ~out.collide.result
           /\ {a[1], b[1]} = {"player", "boundary"} => out.collide.result
           /\ "deathMarker" \in {a[1], b[1]} => ~out.collide.result

\* shouldCollide has been asked about the death marker of one player and the
\* other, living player.
C22_Witness ==
    /\ out.handler = "shouldCollide"
    /\ out.collide.this[1] = "deathMarker"
    /\ out.collide.that[1] = "player"
    /\ out.collide.that # PlayerObj(out.collide.this[2])

\* A step is a tick callback that ran its body.
TickRan == ticksLeft' = ticksLeft - 1 /\ ~game.stopped

\* C23: in the second loop of a tick the visible set of a joined, connected
\* player is recomputed if and only if its movesSinceLastUpdate, with the move
\* of this tick counted, is greater than 8 or updateObjects is set (before the
\* tick, or by a death in it); a recomputation leaves the counter at 0, and the
\* counter grows only by one, in a tick that applied a non-zero velocity.
C23_RecomputeIffTriggered ==
    [][\A i \in Players :
        /\ (TickRan /\ players[i].joined /\ i \in SeqToSet(game.connectedPlayers)) =>
              LET moved == i \in SeqToSet(game.livingPlayers)
                              /\ MovementVector(players[i]) # <<0, 0>>
                  moves == players[i].movesSinceLastUpdate + (IF moved THEN 1 ELSE 0)
                  died == \E j \in Players : ~players[j].dead /\ players'[j].dead
                  triggered == moves > 8 \/ game.updateObjects \/ died
              IN /\ out'.visibility[i].ran = triggered
                 /\ players'[i].movesSinceLastUpdate = IF triggered THEN 0 ELSE moves
        /\ players'[i].movesSinceLastUpdate > players[i].movesSinceLastUpdate =>
              /\ TickRan
              /\ players'[i].movesSinceLastUpdate = players[i].movesSinceLastUpdate + 1
              /\ players'[i].velocity # <<0, 0>>
    ]_vars

\* A tick has recomputed player 1's visible set for its moves alone: the
\* counter it tested was 9 and updateObjects was not set.
C23_Witness ==
    /\ out.handler = "tick"
    /\ out.visibility[1].ran
    /\ out.visibility[1].moves = VisibilityMoveThreshold + 1
    /\ ~out.visibility[1].flag
    /\ players[1].movesSinceLastUpdate = 0

\* C24: a bullet in flight that has reached its maximum distance and has hit
\* nothing is removed in the bullet-expiry phase of the next tick and its id is
\* not in the deletedBulletIDs the packets of that tick are built from; a bullet
\* that has hit something is removed in the damage phase and its id is in them;
\* either way it is not in game.bullets once the tick is over, and a bullet that
\* did neither stays.
C24_BulletLifetime ==
    [][TickRan =>
        \A k \in game.bullets :
            LET bullet == game.bullet[k]
                after == game'.bullet[k]
            IN IF bullet.dead
               THEN /\ k \notin game'.bullets
                    /\ after.removedIn = "damage"
                    /\ bullet.id \in out'.deletedBulletIDs
               ELSE IF bullet.travelled >= BulletRange
               THEN /\ k \notin game'.bullets
                    /\ after.removedIn = "expiry"
                    /\ bullet.id \notin out'.deletedBulletIDs
               ELSE /\ k \in game'.bullets
                    /\ after.removedIn = "none"
    ]_vars

\* One bullet has been removed for its distance and the other for its hit.
C24_Witness ==
    /\ game.bullet[1].removedIn = "expiry"
    /\ game.bullet[2].removedIn = "damage"
    /\ game.bullets = {}

\* C25: a bullet has at most one damage record in its life; a record made by
\* the physics step of tick N is applied, once, by the damage phase of tick
\* N + 1, which is over before the physics step of that tick starts; and the
\* records left by a tick are those its own physics step has made.
C25_DamageRecords ==
    /\ out.recordsAtStep = 0
    /\ \A k \in Players :
          LET bullet == game.bullet[k] IN
          /\ bullet.records <= 1
          /\ bullet.applied <= bullet.records
          /\ bullet.applied = 1 => bullet.appliedAt = bullet.recordedAt + 1
          /\ (bullet.records = 1 /\ bullet.applied = 0) =>
                /\ TickNumber([game |-> game]) = bullet.recordedAt + 1
                /\ Len(SelectSeq(game.damageRecords, LAMBDA r : r.bullet = k)) = 1
    /\ \A n \in DOMAIN game.damageRecords :
          LET bullet == game.bullet[game.damageRecords[n].bullet]
          IN bullet.records = 1 /\ bullet.applied = 0

\* A bullet has been marked dead by a contact, has one record for it, and the
\* record has been applied.
C25_Witness ==
    \E k \in Players :
        /\ game.bullet[k].records = 1
        /\ game.bullet[k].applied = 1
        /\ game.damageRecords = <<>>

\* C30: no id of deletedBulletIDs is the id of a bullet of newBullets when the
\* packets of a tick are built.
C30_NoStaleBulletID ==
    out.newBulletIDs \cap out.deletedBulletIDs = {}

\* The players damage() was called on in the tick that has just run.
DamagedInTick == {c.target : c \in out'.damageCalls}

\* C26: gas.ticksSinceLastDamage is within 0..29 between ticks; a tick that
\* runs is a damage tick exactly when it is the 30th, 60th, ... executed tick,
\* which is when the counter returns to 0; a damage tick calls damage() on
\* exactly the players alive at its start that isInGas() places in the gas,
\* every other tick calls it on nobody, and a living player at a distance
\* below gas.currentRadius is in no tick handed the gas damage.
C26_GasDamagePeriodic ==
    /\ [](game.gas.ticksSinceLastDamage \in 0..(GasDamagePeriod - 1))
    /\ [][TickRan =>
            LET due == (game.tickTimes.length + 1) % GasDamagePeriod = 0
            IN /\ due <=> game'.gas.ticksSinceLastDamage = 0
               /\ ~due => /\ game'.gas.ticksSinceLastDamage = game.gas.ticksSinceLastDamage + 1
                          /\ DamagedInTick = {}
               /\ due => DamagedInTick =
                             {i \in SeqToSet(game.livingPlayers) :
                                 IsInGas(game', players'[i].position)}
               /\ \A i \in SeqToSet(game.livingPlayers) :
                     DistanceSquared(players'[i].position, game'.gas.currentPosition)
                             < game'.gas.currentRadius * game'.gas.currentRadius
                         => i \notin DamagedInTick]_vars

\* The 30th tick has run, with one living player in the gas, who has taken the
\* damage, and another strictly inside the circle, who has not.
C26_Witness ==
    /\ out.handler = "tick"
    /\ game.tickTimes.length = GasDamagePeriod
    /\ game.gas.ticksSinceLastDamage = 0
    /\ \E i \in DamagedThisHandler : IsInGas(game, players[i].position)
    /\ \E j \in SeqToSet(game.livingPlayers) \ DamagedThisHandler :
          DistanceSquared(players[j].position, game.gas.currentPosition)
              < game.gas.currentRadius * game.gas.currentRadius

\* The tick that has just run met player i in its first loop with movement
\* intent, turning or having started an attack.
TickSawIntent(i) ==
    /\ TickRan
    /\ i \in SeqToSet(game.livingPlayers)
    /\ IsMoving(players[i]) \/ players[i].turning \/ players[i].startedAttacking

\* The 5 s timer of player i has just fired.
TimerFired(i) == i \in timers.invulnerability /\ i \notin timers'.invulnerability

\* C27: a player is invulnerable from its creation until the first tick that
\* meets it among the living players with movement intent, turning or having
\* started an attack, or until its 5 s timer fires, whichever is first; the
\* flag never becomes true again; the step that clears it marks the player
\* full-dirty in its own set and in the game's (the tick that clears it sends
\* the player in its own update packet as a full object), and no other step
\* marks it: the timer of a player whose flag is already false changes
\* neither set.
C27_InvulnerabilityLifecycle ==
    /\ [](\A i \in Players :
             /\ out.marks[i] <= 1
             /\ players[i].invulnerable <=> out.marks[i] = 0)
    /\ [][\A i \in Players :
             /\ ~players[i].invulnerable => ~players'[i].invulnerable
             /\ players[i].invulnerable =>
                   (players'[i].invulnerable <=> ~TickSawIntent(i) /\ ~TimerFired(i))
             /\ (players[i].invulnerable /\ TimerFired(i)) =>
                   /\ PlayerObj(i) \in players'[i].fullDirtyObjects
                   /\ PlayerObj(i) \in game'.fullDirtyObjects
             /\ (players[i].invulnerable /\ TickSawIntent(i)) =>
                   /\ out'.lastUpdate[i].sent
                   /\ PlayerObj(i) \in out'.lastUpdate[i].full
             /\ (~players[i].invulnerable /\ TimerFired(i)) =>
                   /\ players'[i].fullDirtyObjects = players[i].fullDirtyObjects
                   /\ game'.fullDirtyObjects = game.fullDirtyObjects]_vars

\* The timer of a player has fired and marked nothing, the flag of the player
\* having been cleared by a tick before, while another player, who has sent
\* nothing, is still invulnerable.
C27_Witness ==
    /\ out.handler = "invulnerabilityTimeout"
    /\ game.fullDirtyObjects = {}
    /\ \E i \in Players :
          /\ out.marks[i] = 1 /\ i \notin timers.invulnerability
          /\ \E j \in Players \ {i} :
                players[j].invulnerable /\ j \in timers.invulnerability

\* C28: when a tick of a game that is not stopped has finished, hitEffect is
\* false for every player, also for one that another player has hit or killed.
C28_HitEffectTransient ==
    (out.handler = "tick" /\ ~game.stopped) =>
        \A i \in Players : ~players[i].hitEffect

\* C29: the id of every object is given back to idAllocator at most once, give
\* is never called for an id that is free, and the id of every bullet that has
\* left game.bullets has been given back to bulletIDAllocator exactly once.
C29_EachIdGivenBackOnce ==
    /\ \A o \in DOMAIN game.gives : game.gives[o] <= 1
    /\ out.gaveFree = {}
    /\ \A k \in Players :
          LET bullet == game.bullet[k] IN
          /\ bullet.gives <= 1
          /\ (bullet.fired /\ k \notin game.bullets) => bullet.gives = 1

\* C31: in the update packet a tick has built for a player, no object is both
\* among the player's fullDirtyObjects and among its deletedObjects.
C31_FullAndDeletedDisjoint ==
    \A i \in Players :
        out.lastUpdate[i].sent =>
            out.lastUpdate[i].full \cap out.lastUpdate[i].deleted = {}

\* C32: a player is never in its own deletedObjects, neither between two
\* handlers nor in the update packet a tick has built for it.
C32_NeverDeletedToItself ==
    \A i \in Players :
        /\ PlayerObj(i) \notin players[i].deletedObjects
        /\ out.lastUpdate[i].sent => PlayerObj(i) \notin out.lastUpdate[i].deleted

C35_IndexReadOnly ==
    \A set \in IndexSets \cup {added[1] : added \in game.addedToIndex} :
        IndexContents(State, set) = StaticVisibleAt(set[1], <<set[2], set[3]>>)

\* A player's nearObjects is a non-empty set of the index, the player sees
\* another player besides, a player has died and one has disconnected.
C35_Witness ==
    /\ \E i \in Players :
          /\ players[i].nearObjects \in IndexSets
          /\ IndexContents(State, players[i].nearObjects) # {}
          /\ \E j \in Players \ {i} : PlayerObj(j) \in players[i].visibleObjects
    /\ \E j \in Players : players[j].dead
    /\ \E j \in Players : players[j].disconnected

\* C36: whenever the tick loop has handed a player an update packet or a
\* kill-feed packet, the first two packets that player was ever sent are the
\* JoinedPacket and then the map packet, sent by activatePlayer.
C36_JoinPacketsFirst ==
    \A i \in Players :
        (out.handler = "tick" /\ out.socket[i] # {}) =>
            out.firstSent[i] = <<"joined", "map">>

\* The tick has sent an update packet to the player that joined during the run.
C36_Witness ==
    /\ out.handler = "tick"
    /\ \E data \in out.socket[NumPlayers] : data.packet.type = "update"
    /\ \E data \in out.socket[NumPlayers] : data.packet.type = "killFeed"

\* C37: in every gas state the search of addPlayer can end: some position
\* getRandomPositionFor can return is outside the gas.
C37_SpawnSearchEnds ==
    \E position \in SpawnCandidates : ~IsInGas(game, position)

CutTo(string, bytes) ==
    SubSeq(string, 1, IF Len(string) < bytes THEN Len(string) ELSE bytes)

C40_RemovalReported ==
    [][TickRan =>
        \A i \in Players :
            (players'[i].joined /\ ~players'[i].disconnected) =>
                \A o \in players[i].visibleObjects \ StaticObjects :
                    o \notin game'.dynamicObjects =>
                        /\ out'.lastUpdate[i].sent
                        /\ o \in out'.lastUpdate[i].deleted
                        /\ o \notin players'[i].visibleObjects]_vars

\* A tick has told the last player, living and connected, that the loot
\* player 1 dropped at its death, and which that player saw, is gone.
C40_Witness ==
    /\ out.handler = "tick"
    /\ players[1].dead
    /\ ~players[NumPlayers].dead /\ ~players[NumPlayers].disconnected
    /\ \E o \in out.lastUpdate[NumPlayers].deleted : o[1] = "loot"

====
